---- MODULE Spec2Model ----
(***************************************************************************)
(* Model of the GHAS enablement helpers (ghas-helpers.js): the license     *)
(* planner checkLicenseAvailability with its committer analysis, and the   *)
(* reference resolver / instance router parseConfigAndGroupRepos.          *)
(*                                                                         *)
(* A JavaScript string is a sequence of chunks (short TLA+ strings); the   *)
(* string operations of the source (toLowerCase, endsWith, replace, split, *)
(* includes, new URL, parseInt) are computed on those sequences.           *)
(***************************************************************************)
EXTENDS Integers, Sequences, FiniteSets, TLC

\* ------------------------------------------------------------------ bounds
\* Largest purchased seat count of a billing snapshot.
MaxSeats == 3
\* Longest repository list handed to checkLicenseAvailability.
MaxRepos == 2

\* ------------------------------------------------------- string operations
Range(s) == {s[i] : i \in DOMAIN s}

\* String.prototype.toLowerCase on one chunk.
LowerChunk(c) ==
  CASE c = "A" -> "a"
    [] c = "B" -> "b"
    [] c = "X" -> "x"
    [] c = "GitHub" -> "github"
    [] OTHER -> c

\* toLowerCase left out: the string is compared as it came.
ToLowerCaseOmitted(s) == s

\* String.prototype.toLowerCase.
ToLowerCase(s) == [i \in DOMAIN s |-> LowerChunk(s[i])]

StartsWith(s, p) == Len(s) >= Len(p) /\ SubSeq(s, 1, Len(p)) = p

\* String.prototype.endsWith.
EndsWith(s, p) == Len(s) >= Len(p) /\ SubSeq(s, Len(s) - Len(p) + 1, Len(s)) = p

\* String.prototype.includes for a needle that is one chunk ('422', '404').
Includes(s, needle) == \E i \in DOMAIN s : s[i] = needle

RECURSIVE FirstNonSlash(_, _)
FirstNonSlash(s, i) ==
  IF i > Len(s) THEN i ELSE IF s[i] = "/" THEN FirstNonSlash(s, i + 1) ELSE i

RECURSIVE FirstSlash(_, _)
FirstSlash(s, i) ==
  IF i > Len(s) THEN i ELSE IF s[i] = "/" THEN i ELSE FirstSlash(s, i + 1)

\* new URL(s) succeeds: a scheme followed by a non-empty host.
UrlParses(s) == Len(s) >= 1 /\ s[1] = "https://" /\ FirstNonSlash(s, 2) <= Len(s)

\* new URL(s).hostname (the URL parser lower-cases the host).
UrlHostname(s) ==
  LET b == FirstNonSlash(s, 2)
      e == FirstSlash(s, b)
  IN ToLowerCase(SubSeq(s, b, e - 1))

\* new URL(s).pathname.
UrlPathname(s) ==
  LET b == FirstNonSlash(s, 2)
      e == FirstSlash(s, b)
  IN IF e > Len(s) THEN <<"/">> ELSE SubSeq(s, e, Len(s))

\* String.prototype.split('/').
RECURSIVE SplitSlash(_)
SplitSlash(s) ==
  LET e == FirstSlash(s, 1)
  IN IF e > Len(s) THEN <<s>>
     ELSE <<SubSeq(s, 1, e - 1)>> \o SplitSlash(SubSeq(s, e + 1, Len(s)))

\* Array.prototype.filter(Boolean) on an array of strings.
FilterBoolean(segs) == SelectSeq(segs, LAMBDA x : x # <<>>)

\* hostname.replace(/^api\./, '').
StripApiPrefix(h) == IF StartsWith(h, <<"api", ".">>) THEN SubSeq(h, 3, Len(h)) ELSE h

Digits == {"0", "1", "2", "3", "4", "5", "6", "7", "8", "9"}

DigitValue(c) ==
  CASE c = "0" -> 0 [] c = "1" -> 1 [] c = "2" -> 2 [] c = "3" -> 3 [] c = "4" -> 4
    [] c = "5" -> 5 [] c = "6" -> 6 [] c = "7" -> 7 [] c = "8" -> 8 [] c = "9" -> 9

RECURSIVE DigitsValue(_, _, _)
DigitsValue(s, i, acc) ==
  IF i > Len(s) \/ s[i] \notin Digits THEN acc
  ELSE DigitsValue(s, i + 1, 10 * acc + DigitValue(s[i]))

\* parseInt(s, 10): an optional sign and the longest prefix of digits; NaN
\* when there is no digit (the empty sequence also stands for undefined).
ParseInt(s) ==
  LET neg == Len(s) >= 1 /\ s[1] = "-"
      b == IF Len(s) >= 1 /\ s[1] \in {"-", "+"} THEN 2 ELSE 1
  IN IF b > Len(s) \/ s[b] \notin Digits THEN [nan |-> TRUE, value |-> 0]
     ELSE [nan |-> FALSE,
           value |-> IF neg THEN 0 - DigitsValue(s, b, 0) ELSE DigitsValue(s, b, 0)]

\* The add of an array, which keeps duplicates.
SetAddKeepingDuplicates(set, x) == Append(set, x)

\* A JavaScript Set kept as the array of its elements in insertion order.
SetAdd(set, x) == IF x \in Range(set) THEN set ELSE Append(set, x)

RECURSIVE SetAddAll(_, _)
SetAddAll(set, xs) ==
  IF xs = <<>> THEN set ELSE SetAddAll(SetAdd(set, Head(xs)), Tail(xs))

\* A JavaScript object used as a map: a function on the keys that were set.
EmptyObject == [k \in {} |-> ""]

ObjSet(obj, k, v) == [x \in DOMAIN obj \cup {k} |-> IF x = k THEN v ELSE obj[x]]

\* obj[k]; a missing key reads as undefined, modelled like the empty token.
ObjGet(obj, k) == IF k \in DOMAIN obj THEN obj[k] ELSE ""

\* ------------------------------------------------------------ input values
GitHubCom == <<"github", ".", "com">>
MainHost == <<"github", ".", "example", ".", "com">>
SubHost == <<"ghes1", ".">> \o MainHost
TrapHost == <<"github", "-test", ".", "example", ".", "com">>
GlueHost == <<"my", "github", ".", "example", ".", "com">>
OtherHost == <<"other", ".", "org">>

Url(host, path) == <<"https://">> \o host \o path

RepoA == Url(MainHost, <<"/", "org1", "/", "repoA">>)
RepoB == Url(MainHost, <<"/", "org1", "/", "repoB">>)
SubRepo == Url(SubHost, <<"/", "org2", "/", "repoC">>)

\* Raw email strings as the host returns them.
EmailUpperA == <<"A", "@", "x">>
EmailLowerA == <<"a", "@", "x">>
EmailUpperB == <<"b", "@", "X">>
EmailLowerB == <<"b", "@", "x">>
NoEmail == <<>>

\* config.yaml of the license runs: the license authority and one server.
LicenseConfig ==
  [ghec |-> [name |-> "enterprise",
             api_url |-> Url(<<"api", ".">> \o GitHubCom, <<>>),
             auth_var |-> "GH_ENTERPRISE_TOKEN_CLOUD"],
   ghes_instances |->
     [isArray |-> TRUE,
      items |-> <<[name |-> "main",
                   api_url |-> Url(MainHost, <<"/", "api", "/", "v3">>),
                   auth_var |-> "GHES_API_TOKEN_1"]>>]]

\* Values of env.MIN_REMAINING_LICENSES (the empty one is also "unset").
MinRemainingRaw == {<<>>, <<"0">>, <<"2">>, <<"-", "1">>}

\* env with the tokens of the configured auth_vars set or unset.
EnvVars ==
  {[v \in {"GH_ENTERPRISE_TOKEN_CLOUD", "GHES_API_TOKEN_1"} |->
      IF v = "GHES_API_TOKEN_1" THEN "tok-1" ELSE "tok-cloud"]}

FeatureSelections ==
  [enableSecretScanning : BOOLEAN, enableCodeScanning : BOOLEAN,
   enableDependabotAlerts : BOOLEAN]

RECURSIVE SeqsUpTo(_, _)
SeqsUpTo(S, n) ==
  IF n = 0 THEN {<<>>}
  ELSE LET shorter == SeqsUpTo(S, n - 1)
       IN shorter \cup {Append(q, x) : q \in shorter, x \in S}

\* A reference that new URL rejects.
NoScheme == <<"org1", "/", "repoA">>

\* The repository lists of a call: every list over two repositories, and
\* the lists that hold an unparseable reference before and after a valid one.
RepositoryLists ==
  SeqsUpTo({RepoA, SubRepo}, MaxRepos) \cup {<<NoScheme, RepoA>>, <<RepoA, NoScheme>>}

\* ghasData.repositories as the billing endpoint can return it: absent, or an
\* array of repositories whose committer breakdown is absent or an array of
\* entries with or without last_pushed_email.
NotAnArray == [isArray |-> FALSE, items |-> <<>>]
ArrayOf(items) == [isArray |-> TRUE, items |-> items]

BillingRepositories ==
  {NotAnArray,
   ArrayOf(<<ArrayOf(<<EmailUpperA>>)>>),
   ArrayOf(<<ArrayOf(<<EmailLowerA, NoEmail>>), NotAnArray>>),
   ArrayOf(<<ArrayOf(<<EmailUpperB>>), ArrayOf(<<EmailLowerA>>)>>)}

UsedSeats == {0, 1}

\* purchased_advanced_security_committers: a number, or absent (undefined).
PurchasedSeats ==
  {[defined |-> FALSE, value |-> 0]} \cup {[defined |-> TRUE, value |-> n] : n \in 0..MaxSeats}

BillingSnapshots ==
  [purchased_advanced_security_committers : PurchasedSeats,
   total_advanced_security_committers : UsedSeats,
   repositories : BillingRepositories]

\* error.message of a failed execSync / JSON.parse.
MsgUnprocessable == <<"gh: Validation Failed (HTTP ", "422", ")">>
MsgNotFound == <<"gh: Not Found (HTTP ", "404", ")">>
MsgForbidden == <<"gh: Forbidden (HTTP ", "403", ")">>
MsgJson == <<"Unexpected token < in JSON at position 0">>
MsgEmpty == <<>>

BillingFailures == {MsgUnprocessable, MsgNotFound, MsgJson, MsgEmpty}

Commit(author, committer) == [author |-> author, committer |-> committer]

\* Parsed bodies of the commits endpoint.
CommitResponses ==
  {ArrayOf(<<>>),
   ArrayOf(<<Commit(EmailUpperA, EmailLowerA)>>),
   ArrayOf(<<Commit(EmailLowerB, NoEmail)>>),
   ArrayOf(<<Commit(EmailLowerA, EmailUpperB), Commit(EmailUpperA, NoEmail)>>),
   NotAnArray}

CommitFailures == {MsgNotFound, MsgForbidden, MsgJson}

\* Number.MAX_SAFE_INTEGER is 2^53 - 1 in the source; the model checker's
\* integers are 32 bits wide, and its largest value stands for it.  The code
\* only stores and compares the sentinel, it never computes with it.
MAX_SAFE_INTEGER == 2147483647

VARIABLES
  pc,               \* position of the run
  env,              \* checkLicenseAvailability: env
  skipCheck,        \* checkLicenseAvailability: skipCheck
  repositories,     \* checkLicenseAvailability: repositories
  features,         \* checkLicenseAvailability: features
  config,           \* the parsed config.yaml
  ghasData,         \* the parsed billing snapshot
  tokensByHostname, \* hostname -> token
  idx,              \* getAllUniqueCommitters: index of the next repository
  allCommitters,    \* getAllUniqueCommitters: allCommitters
  observedRaw,      \* raw emails the commits endpoint has returned so far
  calls,            \* the requests issued to the host so far, in order
  billingReplies,   \* what the host answered to each billing request
  fetchReplies,     \* what the host answered to each listing request
  result,           \* the returned license information
  thrown,           \* the error the call threw
  inputRepos,       \* parseConfigAndGroupRepos: the parsed repositoriesJson
  orgUrls,          \* parseConfigAndGroupRepos: orgUrls
  invalidRepositories, \* parseConfigAndGroupRepos: invalidRepositories
  validRepositories,   \* parseConfigAndGroupRepos: validRepositories
  matrixItems,      \* parseConfigAndGroupRepos: matrixItems
  dryRun,           \* createResultsComment: dryRun
  comment,          \* createResultsComment: the lines of the comment
  matrixAuthVar,    \* determineTokenName: authVar
  secrets,          \* getTokenValue: secrets
  tokenName,        \* getTokenValue: tokenName
  tokenValue        \* the value getTokenValue returned

argVars == <<env, skipCheck, repositories, features, config>>

routeVars ==
  <<inputRepos, orgUrls, invalidRepositories, validRepositories, matrixItems>>

reportVars == <<dryRun, comment>>

credentialVars == <<matrixAuthVar, secrets, tokenName, tokenValue>>

vars ==
  <<pc, argVars, ghasData, tokensByHostname, idx, allCommitters, observedRaw,
    calls, billingReplies, fetchReplies, result, thrown, routeVars, reportVars,
    credentialVars>>

\* --------------------------------------------------- committer analysis
\* The not-yet-lower-cased email fields of a commit list that are set.
RawEmailsOf(commits) ==
  ({commits[i].author : i \in DOMAIN commits} \cup
   {commits[i].committer : i \in DOMAIN commits}) \ {NoEmail}

\* fetchRepoCommitters: the forEach over the parsed commits.
RECURSIVE CollectCommitters(_, _)
CollectCommitters(committers, commits) ==
  IF commits = <<>> THEN committers
  ELSE LET c == Head(commits)
           withAuthor ==
             IF c.author # NoEmail THEN SetAdd(committers, ToLowerCase(c.author))
             ELSE committers
           withCommitter ==
             IF c.committer # NoEmail
             THEN SetAdd(withAuthor, ToLowerCase(c.committer))
             ELSE withAuthor
       IN CollectCommitters(withCommitter, Tail(commits))

\* fetchRepoCommitters: pathParts of the repository URL.
RepoPathParts(repoUrl) ==
  LET p == UrlPathname(repoUrl)
  IN SplitSlash(IF p # <<>> /\ p[1] = "/" THEN Tail(p) ELSE p)

\* fetchRepoCommitters issues the commits request only for org/repo paths.
FetchIssuesRequest(repoUrl) == Len(RepoPathParts(repoUrl)) >= 2

\* fetchRepoCommitters: the value returned for a parsed response body.
CommittersOfResponse(body) ==
  IF body.isArray THEN CollectCommitters(<<>>, body.items) ELSE <<>>

\* ------------------------------------------------------- license planner
\* parseInt(env.MIN_REMAINING_LICENSES, 10) || 1
MinRemainingLicenses(e) ==
  LET p == ParseInt(e.MIN_REMAINING_LICENSES)
  IN IF p.nan \/ p.value = 0 THEN 1 ELSE p.value

\* parseIssueBody: validMinLicenses of the trimmed text of the form field,
\* empty when the field is missing.
ValidMinLicenses(minLicensesRaw) ==
  LET p == IF minLicensesRaw # <<>> THEN ParseInt(minLicensesRaw)
           ELSE [nan |-> FALSE, value |-> 1]
  IN IF ~p.nan /\ p.value > 0 THEN p.value ELSE 1

\* The skip result without its marker.
SkipResultUnmarked(e) ==
  [keys |-> {"totalLicenses", "usedLicenses", "availableLicenses",
             "minRemainingLicenses", "hasEnoughLicenses", "skipLicenseCheck",
             "currentGhasCommitters", "newCommitters", "newCommittersList",
             "estimatedLicensesNeeded"},
   totalLicenses |-> [defined |-> TRUE, value |-> 1000],
   usedLicenses |-> 1,
   availableLicenses |-> 999,
   minRemainingLicenses |-> MinRemainingLicenses(e),
   hasEnoughLicenses |-> TRUE,
   skipLicenseCheck |-> FALSE,
   currentGhasCommitters |-> <<>>,
   newCommitters |-> 0,
   newCommittersList |-> <<>>,
   estimatedLicensesNeeded |-> 0]

SkipResult(e) ==
  [keys |-> {"totalLicenses", "usedLicenses", "availableLicenses",
             "minRemainingLicenses", "hasEnoughLicenses", "skipLicenseCheck",
             "currentGhasCommitters", "newCommitters", "newCommittersList",
             "estimatedLicensesNeeded"},
   totalLicenses |-> [defined |-> TRUE, value |-> 1000],
   usedLicenses |-> 1,
   availableLicenses |-> 999,
   minRemainingLicenses |-> MinRemainingLicenses(e),
   hasEnoughLicenses |-> TRUE,
   skipLicenseCheck |-> TRUE,
   currentGhasCommitters |-> <<>>,
   newCommitters |-> 0,
   newCommittersList |-> <<>>,
   estimatedLicensesNeeded |-> 0]

\* The secret-scanning branch tested first: both features selected then
\* also give secret_protection.
AdvancedSecurityProductSecretFirst(f) ==
  IF f.enableSecretScanning THEN "secret_protection" ELSE "code_security"

\* The product of the billing retry, from the selected features.
AdvancedSecurityProduct(f) ==
  IF f.enableSecretScanning /\ f.enableCodeScanning THEN "code_security"
  ELSE IF f.enableSecretScanning THEN "secret_protection"
  ELSE IF f.enableCodeScanning THEN "code_security"
  ELSE "code_security"

\* Every failure with a message is retried.
NeedsProductParameterAnyFailure(message) == message # <<>>

\* error.message && error.message.includes('422')
NeedsProductParameter(message) == message # <<>> /\ Includes(message, "422")

\* Only an absent total counts as unlimited, 0 is a real seat count.
IsUnlimitedLicensesAbsentOnly(totalLicenses) == ~totalLicenses.defined

IsUnlimitedLicenses(totalLicenses) ==
  (totalLicenses.defined /\ totalLicenses.value = 0) \/ ~totalLicenses.defined

\* The emails of one repository's committer breakdown, lower-cased.
RECURSIVE AddBreakdown(_, _)
AddBreakdown(set, entries) ==
  IF entries = <<>> THEN set
  ELSE AddBreakdown(
         IF Head(entries) # NoEmail THEN SetAdd(set, ToLowerCase(Head(entries)))
         ELSE set,
         Tail(entries))

RECURSIVE AddGhasRepositories(_, _)
AddGhasRepositories(set, repos) ==
  IF repos = <<>> THEN set
  ELSE AddGhasRepositories(
         IF Head(repos).isArray THEN AddBreakdown(set, Head(repos).items) ELSE set,
         Tail(repos))

CurrentGhasCommitters(data) ==
  IF data.repositories.isArray
  THEN AddGhasRepositories(<<>>, data.repositories.items)
  ELSE <<>>

\* The base assessment: unlimited, or purchased minus used.
AvailableLicenses(data) ==
  IF IsUnlimitedLicenses(data.purchased_advanced_security_committers)
  THEN MAX_SAFE_INTEGER
  ELSE data.purchased_advanced_security_committers.value
         - data.total_advanced_security_committers

\* The result when no repositories were provided.
BaseResult(e, data) ==
  LET isUnlimitedLicenses ==
        IsUnlimitedLicenses(data.purchased_advanced_security_committers)
      availableLicenses == AvailableLicenses(data)
      minRemainingLicenses == MinRemainingLicenses(e)
  IN [keys |-> {"totalLicenses", "usedLicenses", "availableLicenses",
                "minRemainingLicenses", "hasEnoughLicenses", "skipLicenseCheck",
                "currentGhasCommitters", "newCommitters",
                "estimatedLicensesNeeded"},
      totalLicenses |-> data.purchased_advanced_security_committers,
      usedLicenses |-> data.total_advanced_security_committers,
      availableLicenses |-> availableLicenses,
      minRemainingLicenses |-> minRemainingLicenses,
      hasEnoughLicenses |->
        isUnlimitedLicenses \/ availableLicenses > minRemainingLicenses,
      skipLicenseCheck |-> FALSE,
      currentGhasCommitters |-> CurrentGhasCommitters(data),
      newCommitters |-> 0,
      newCommittersList |-> <<>>,
      estimatedLicensesNeeded |-> 0]

\* Every observed committer counts as new.
NewCommittersListUnfiltered(repoCommitters, currentGhasCommitters) == repoCommitters

\* repoCommitters.filter(c => !currentGhasCommitters.has(c.toLowerCase()))
NewCommittersList(repoCommitters, currentGhasCommitters) ==
  SelectSeq(repoCommitters,
            LAMBDA c : ToLowerCase(c) \notin Range(currentGhasCommitters))

\* The comparison of the base check (strictly greater) used here too.
HasEnoughLicensesStrict(isUnlimitedLicenses, estimatedAvailableLicenses, minRemainingLicenses) ==
  isUnlimitedLicenses \/ estimatedAvailableLicenses > minRemainingLicenses

\* The final decision of the analysed path.
HasEnoughLicenses(isUnlimitedLicenses, estimatedAvailableLicenses, minRemainingLicenses) ==
  isUnlimitedLicenses \/ estimatedAvailableLicenses >= minRemainingLicenses

\* The result after the committer analysis.
AnalysedResult(e, data, repoCommitters) ==
  LET isUnlimitedLicenses ==
        IsUnlimitedLicenses(data.purchased_advanced_security_committers)
      availableLicenses == AvailableLicenses(data)
      minRemainingLicenses == MinRemainingLicenses(e)
      currentGhasCommitters == CurrentGhasCommitters(data)
      newCommittersList == NewCommittersList(repoCommitters, currentGhasCommitters)
      estimatedLicensesNeeded == Len(newCommittersList)
      estimatedAvailableLicenses ==
        IF isUnlimitedLicenses THEN MAX_SAFE_INTEGER
        ELSE availableLicenses - estimatedLicensesNeeded
  IN [keys |-> {"totalLicenses", "usedLicenses", "availableLicenses",
                "minRemainingLicenses", "hasEnoughLicenses", "skipLicenseCheck",
                "currentGhasCommitters", "newCommitters", "newCommittersList",
                "estimatedLicensesNeeded"},
      totalLicenses |-> data.purchased_advanced_security_committers,
      usedLicenses |-> data.total_advanced_security_committers,
      availableLicenses |-> estimatedAvailableLicenses,
      minRemainingLicenses |-> minRemainingLicenses,
      hasEnoughLicenses |->
        HasEnoughLicenses(isUnlimitedLicenses, estimatedAvailableLicenses,
                          minRemainingLicenses),
      skipLicenseCheck |-> FALSE,
      currentGhasCommitters |-> currentGhasCommitters,
      newCommitters |-> Len(newCommittersList),
      newCommittersList |-> newCommittersList,
      estimatedLicensesNeeded |-> estimatedLicensesNeeded]

\* tokensByHostname of checkLicenseAvailability: the license authority's
\* token, then the token of every instance whose api_url parses.
RECURSIVE AddInstanceTokens(_, _, _)
AddInstanceTokens(tokens, instances, tokenVars) ==
  IF instances = <<>> THEN tokens
  ELSE LET instance == Head(instances)
       IN AddInstanceTokens(
            IF UrlParses(instance.api_url)
            THEN ObjSet(tokens, StripApiPrefix(UrlHostname(instance.api_url)),
                        ObjGet(tokenVars, instance.auth_var))
            ELSE tokens,
            Tail(instances), tokenVars)

GhecHostname(cfg) == StripApiPrefix(UrlHostname(cfg.ghec.api_url))

LicenseTokensByHostname(cfg, e) ==
  LET ghecTokens ==
        ObjSet(EmptyObject, GhecHostname(cfg), ObjGet(e.vars, cfg.ghec.auth_var))
  IN IF cfg.ghes_instances.isArray
     THEN AddInstanceTokens(ghecTokens, cfg.ghes_instances.items, e.vars)
     ELSE ghecTokens

\* ------------------------------------------- checkLicenseAvailability
NoSnapshot ==
  [purchased_advanced_security_committers |-> [defined |-> FALSE, value |-> 0],
   total_advanced_security_committers |-> 0,
   repositories |-> NotAnArray]

NoResult ==
  [keys |-> {},
   totalLicenses |-> [defined |-> FALSE, value |-> 0],
   usedLicenses |-> 0,
   availableLicenses |-> 0,
   minRemainingLicenses |-> 0,
   hasEnoughLicenses |-> FALSE,
   skipLicenseCheck |-> FALSE,
   currentGhasCommitters |-> <<>>,
   newCommitters |-> 0,
   newCommittersList |-> <<>>,
   estimatedLicensesNeeded |-> 0]

HostCall(op, product, url) == [op |-> op, product |-> product, url |-> url]

Answered == [ok |-> TRUE, message |-> <<>>]
Failed(message) == [ok |-> FALSE, message |-> message]

\* A failed commits request: its message is written to the log, one of
\* three texts by the status it names, and is kept nowhere.
Unanswered == [ok |-> FALSE, message |-> <<>>]

\* An answer that is JSON and is not an array.
AnsweredNoArray == [ok |-> TRUE, message |-> <<"object">>]

\* The answer to the request about one repository or organization URL.
HostReply(url, reply) == [url |-> url, reply |-> reply]

InitLicense ==
  /\ pc = "start"
  /\ env \in [MIN_REMAINING_LICENSES : MinRemainingRaw, vars : EnvVars]
  /\ skipCheck \in BOOLEAN
  /\ repositories \in RepositoryLists
  /\ features \in FeatureSelections
  /\ config = LicenseConfig
  /\ ghasData = NoSnapshot
  /\ tokensByHostname = EmptyObject
  /\ idx = 1
  /\ allCommitters = <<>>
  /\ observedRaw = {}
  /\ calls = <<>>
  /\ billingReplies = <<>>
  /\ fetchReplies = <<>>
  /\ result = NoResult
  /\ thrown = <<>>
  /\ inputRepos = <<>>
  /\ orgUrls = <<>>
  /\ invalidRepositories = <<>>
  /\ validRepositories = <<>>
  /\ matrixItems = <<>>
  /\ dryRun = FALSE
  /\ comment = <<>>
  /\ matrixAuthVar = ""
  /\ secrets = EmptyObject
  /\ tokenName = ""
  /\ tokenValue = ""

\* The skipped check after a refresh of the authentication.
SkipCheckAfterRefresh ==
  /\ UNCHANGED <<routeVars, reportVars, credentialVars, fetchReplies>>
  /\ pc = "start"
  /\ skipCheck
  /\ calls' = Append(calls, HostCall("authRefresh", "", <<>>))
  /\ result' = SkipResult(env)
  /\ pc' = "returned"
  /\ UNCHANGED <<argVars, ghasData, tokensByHostname, idx, allCommitters,
                 observedRaw, billingReplies, thrown>>

\* skipCheck: return the default values without reading anything.
SkipCheck ==
  /\ UNCHANGED <<routeVars, reportVars, credentialVars, fetchReplies>>
  /\ pc = "start"
  /\ skipCheck
  /\ result' = SkipResult(env)
  /\ pc' = "returned"
  /\ UNCHANGED <<argVars, ghasData, tokensByHostname, idx, allCommitters,
                 observedRaw, calls, billingReplies, thrown>>

\* gh auth refresh; whether it fails or not, the code goes on the same way.
RefreshAuthentication ==
  /\ UNCHANGED <<routeVars, reportVars, credentialVars, fetchReplies>>
  /\ pc = "start"
  /\ ~skipCheck
  /\ calls' = Append(calls, HostCall("authRefresh", "", <<>>))
  /\ pc' = "billing"
  /\ UNCHANGED <<argVars, ghasData, tokensByHostname, idx, allCommitters,
                 observedRaw, billingReplies, result, thrown>>

\* The code after a snapshot was parsed, up to the base result or the start
\* of the committer analysis.
SnapshotReceived(data) ==
  /\ ghasData' = data
  /\ billingReplies' = Append(billingReplies, Answered)
  /\ IF repositories = <<>>
     THEN /\ result' = BaseResult(env, data)
          /\ pc' = "returned"
          /\ UNCHANGED tokensByHostname
     ELSE /\ tokensByHostname' = LicenseTokensByHostname(config, env)
          /\ pc' = "analyze"
          /\ UNCHANGED result
  /\ UNCHANGED <<argVars, idx, allCommitters, observedRaw, thrown>>

\* A first billing request whose failure does not end the call: the
\* committer analysis starts without a snapshot.
FetchBillingContinuesOnFailure ==
  /\ UNCHANGED <<routeVars, reportVars, credentialVars, fetchReplies>>
  /\ pc = "billing"
  /\ calls' = Append(calls, HostCall("billing", "", <<>>))
  /\ \/ \E data \in BillingSnapshots : SnapshotReceived(data)
     \/ \E message \in BillingFailures :
          /\ billingReplies' = Append(billingReplies, Failed(message))
          /\ IF NeedsProductParameter(message)
             THEN pc' = "retry" /\ UNCHANGED <<thrown, tokensByHostname>>
             ELSE IF repositories = <<>>
             THEN pc' = "thrown" /\ thrown' = message /\ UNCHANGED tokensByHostname
             ELSE /\ pc' = "analyze"
                  /\ tokensByHostname' = LicenseTokensByHostname(config, env)
                  /\ UNCHANGED thrown
          /\ UNCHANGED <<argVars, ghasData, idx, allCommitters, observedRaw, result>>

\* The first billing request, without advanced_security_product.
FetchBilling ==
  /\ UNCHANGED <<routeVars, reportVars, credentialVars, fetchReplies>>
  /\ pc = "billing"
  /\ calls' = Append(calls, HostCall("billing", "", <<>>))
  /\ \/ \E data \in BillingSnapshots : SnapshotReceived(data)
     \/ \E message \in BillingFailures :
          /\ billingReplies' = Append(billingReplies, Failed(message))
          /\ IF NeedsProductParameter(message)
             THEN pc' = "retry" /\ UNCHANGED thrown
             ELSE pc' = "thrown" /\ thrown' = message
          /\ UNCHANGED <<argVars, ghasData, tokensByHostname, idx,
                         allCommitters, observedRaw, result>>

\* A retry whose failure is swallowed: the default values are returned.
RetryBillingDefaultsOnFailure ==
  /\ UNCHANGED <<routeVars, reportVars, credentialVars, fetchReplies>>
  /\ pc = "retry"
  /\ calls' = Append(calls, HostCall("billing", AdvancedSecurityProduct(features), <<>>))
  /\ \/ \E data \in BillingSnapshots : SnapshotReceived(data)
     \/ \E message \in BillingFailures :
          /\ billingReplies' = Append(billingReplies, Failed(message))
          /\ pc' = "returned"
          /\ result' = SkipResult(env)
          /\ UNCHANGED <<argVars, ghasData, tokensByHostname, idx,
                         allCommitters, observedRaw, thrown>>

\* The retry with the advanced_security_product parameter.
RetryBilling ==
  /\ UNCHANGED <<routeVars, reportVars, credentialVars, fetchReplies>>
  /\ pc = "retry"
  /\ calls' = Append(calls, HostCall("billing", AdvancedSecurityProduct(features), <<>>))
  /\ \/ \E data \in BillingSnapshots : SnapshotReceived(data)
     \/ \E message \in BillingFailures :
          /\ billingReplies' = Append(billingReplies, Failed(message))
          /\ pc' = "thrown"
          /\ thrown' = message
          /\ UNCHANGED <<argVars, ghasData, tokensByHostname, idx,
                         allCommitters, observedRaw, result>>

\* getAllUniqueCommitters: the end of one iteration, and after the last
\* iteration the rest of checkLicenseAvailability.
RepositoryDone(repoCommitters) ==
  LET merged == SetAddAll(allCommitters, repoCommitters)
  IN /\ allCommitters' = merged
     /\ idx' = idx + 1
     /\ IF idx = Len(repositories)
        THEN /\ result' = AnalysedResult(env, ghasData, merged)
             /\ pc' = "returned"
        ELSE UNCHANGED <<result, pc>>
     /\ UNCHANGED <<argVars, ghasData, tokensByHostname, billingReplies, thrown>>

\* getAllUniqueCommitters / fetchRepoCommitters reach the commits request:
\* the URL parses, its hostname has a token, its path is org/repo.
RepositoryNeedsRequest(repoUrl) ==
  /\ UrlParses(repoUrl)
  /\ ObjGet(tokensByHostname, UrlHostname(repoUrl)) # ""
  /\ FetchIssuesRequest(repoUrl)

\* What the host answers to the commits request of a repository: a parsed
\* body, or a failure.
CommitReplies ==
  {[ok |-> TRUE, body |-> b] : b \in CommitResponses}
  \cup {[ok |-> FALSE, body |-> NotAnArray]}

\* getAllUniqueCommitters over a whole list, the host answering host[repoUrl]
\* to the commits request of repoUrl: the loop from its set so far.
RECURSIVE getAllUniqueCommitters(_, _, _)
getAllUniqueCommitters(set, repos, host) ==
  IF repos = <<>> THEN set
  ELSE LET repoUrl == Head(repos)
           repoCommitters ==
             IF RepositoryNeedsRequest(repoUrl) /\ host[repoUrl].ok
             THEN CommittersOfResponse(host[repoUrl].body)
             ELSE <<>>
       IN getAllUniqueCommitters(SetAddAll(set, repoCommitters), Tail(repos), host)

\* The repository is passed over without a request to the host.
SkipRepository ==
  /\ UNCHANGED <<routeVars, reportVars, credentialVars, fetchReplies>>
  /\ pc = "analyze"
  /\ idx <= Len(repositories)
  /\ ~RepositoryNeedsRequest(repositories[idx])
  /\ RepositoryDone(<<>>)
  /\ UNCHANGED <<observedRaw, calls>>

\* A failed commits request that is not caught and ends the call.
FetchRepoCommittersUncaught ==
  /\ UNCHANGED <<routeVars, reportVars, credentialVars>>
  /\ pc = "analyze"
  /\ idx <= Len(repositories)
  /\ RepositoryNeedsRequest(repositories[idx])
  /\ calls' = Append(calls, HostCall("listCommits", "", repositories[idx]))
  /\ \/ \E body \in CommitResponses :
          /\ observedRaw' =
               observedRaw \cup (IF body.isArray THEN RawEmailsOf(body.items) ELSE {})
          /\ fetchReplies' = Append(fetchReplies, HostReply(repositories[idx], Answered))
          /\ RepositoryDone(CommittersOfResponse(body))
     \/ \E message \in CommitFailures :
          /\ fetchReplies' =
               Append(fetchReplies, HostReply(repositories[idx], Unanswered))
          /\ pc' = "thrown"
          /\ thrown' = message
          /\ UNCHANGED <<argVars, ghasData, tokensByHostname, billingReplies, idx,
                         allCommitters, observedRaw, result>>

\* fetchRepoCommitters with a request to the commits endpoint.
FetchRepoCommitters ==
  /\ UNCHANGED <<routeVars, reportVars, credentialVars>>
  /\ pc = "analyze"
  /\ idx <= Len(repositories)
  /\ RepositoryNeedsRequest(repositories[idx])
  /\ calls' = Append(calls, HostCall("listCommits", "", repositories[idx]))
  /\ \/ \E body \in CommitResponses :
          /\ observedRaw' =
               observedRaw \cup (IF body.isArray THEN RawEmailsOf(body.items) ELSE {})
          /\ fetchReplies' = Append(fetchReplies, HostReply(repositories[idx], Answered))
          /\ RepositoryDone(CommittersOfResponse(body))
     \/ \E message \in CommitFailures :
          /\ UNCHANGED observedRaw
          /\ fetchReplies' =
               Append(fetchReplies, HostReply(repositories[idx], Unanswered))
          /\ RepositoryDone(<<>>)

NextLicense ==
  \/ SkipCheck
  \/ RefreshAuthentication
  \/ FetchBilling
  \/ RetryBilling
  \/ SkipRepository
  \/ FetchRepoCommitters

SpecLicense == InitLicense /\ [][NextLicense]_vars

\* ------------------------------------------------ getAllUniqueCommitters
\* The committer analysis on its own, the host's answers fixed per
\* repository: the lists over three repositories, two of them of one host.
CommitterLists == SeqsUpTo({RepoA, RepoB, SubRepo}, MaxRepos)

CommitterSnapshots ==
  {d \in BillingSnapshots :
     d.repositories \in {NotAnArray, ArrayOf(<<ArrayOf(<<EmailUpperA>>)>>)}}

\* The answers of the host, fixed per repository URL that is requested.
HostAnswers ==
  [{u \in Range(repositories) : RepositoryNeedsRequest(u)} -> CommitReplies]

InitCommitters ==
  /\ pc = "committers"
  /\ repositories \in CommitterLists
  /\ ghasData \in CommitterSnapshots
  /\ env \in [MIN_REMAINING_LICENSES : {<<>>}, vars : EnvVars]
  /\ config = LicenseConfig
  /\ tokensByHostname = LicenseTokensByHostname(LicenseConfig, env)
  /\ features = CHOOSE f \in FeatureSelections : TRUE
  /\ skipCheck = FALSE
  /\ idx = 1
  /\ allCommitters = <<>>
  /\ observedRaw = {}
  /\ calls = <<>>
  /\ billingReplies = <<>>
  /\ fetchReplies = <<>>
  /\ result = NoResult
  /\ thrown = <<>>
  /\ inputRepos = <<>>
  /\ orgUrls = <<>>
  /\ invalidRepositories = <<>>
  /\ validRepositories = <<>>
  /\ matrixItems = <<>>
  /\ dryRun = FALSE
  /\ comment = <<>>
  /\ matrixAuthVar = ""
  /\ secrets = EmptyObject
  /\ tokenName = ""
  /\ tokenValue = ""

\* The whole loop of getAllUniqueCommitters and the result computed from it.
GetAllUniqueCommitters ==
  /\ pc = "committers"
  /\ \E host \in HostAnswers :
       /\ allCommitters' = getAllUniqueCommitters(<<>>, repositories, host)
       /\ result' =
            AnalysedResult(env, ghasData,
                           getAllUniqueCommitters(<<>>, repositories, host))
  /\ idx' = Len(repositories) + 1
  /\ pc' = "collected"
  /\ UNCHANGED <<argVars, ghasData, tokensByHostname, observedRaw, calls,
                 billingReplies, fetchReplies, thrown, routeVars, reportVars,
                 credentialVars>>

SpecCommitters == InitCommitters /\ [][GetAllUniqueCommitters]_vars

\* ---------------------------------------------- parseConfigAndGroupRepos
\* Longest list of input references.
MaxInputs == 2
\* Longest list of configured instances.
MaxInstances == 2

OrgMain == Url(MainHost, <<"/", "org1">>)
OrgSub == Url(SubHost, <<"/", "org2">>)
TrapRepo == Url(TrapHost, <<"/", "org1", "/", "repoA">>)
GlueRepo == Url(GlueHost, <<"/", "org1", "/", "repoA">>)
OtherRepo == Url(OtherHost, <<"/", "org3", "/", "repoD">>)
HostOnly == Url(MainHost, <<>>)

InputReferences ==
  {RepoA, OrgMain, SubRepo, OrgSub, TrapRepo, GlueRepo, OtherRepo, HostOnly, NoScheme}

InputLists == SeqsUpTo(InputReferences, MaxInputs)

InstanceMain ==
  [name |-> "main", api_url |-> Url(MainHost, <<"/", "api", "/", "v3">>),
   auth_var |-> "GHES_API_TOKEN_1"]
InstanceSub ==
  [name |-> "sub", api_url |-> Url(<<"api", ".">> \o SubHost, <<>>),
   auth_var |-> "GHES_API_TOKEN_2"]
InstanceBad ==
  [name |-> "bad", api_url |-> <<"ghes", ".", "internal">>,
   auth_var |-> "GHES_API_TOKEN_2"]

RouteConfigs ==
  {[ghec |-> LicenseConfig.ghec, ghes_instances |-> instances] :
     instances \in {NotAnArray} \cup
       {ArrayOf(q) : q \in SeqsUpTo({InstanceMain, InstanceSub, InstanceBad}, MaxInstances)}}

RouteEnvVars ==
  {[v \in {"GHES_API_TOKEN_1", "GHES_API_TOKEN_2"} |->
      IF v = "GHES_API_TOKEN_1" THEN t ELSE "tok-2"] : t \in {"tok-1", ""}}

\* The features and the headroom the caller passes through to the matrix.
RouteFeatures ==
  [enableSecretScanning |-> TRUE, enableCodeScanning |-> FALSE,
   enableDependabotAlerts |-> TRUE]

\* The minRemainingLicenses argument, carried into every matrix item.
RouteMinRemainingLicenses == 1

\* full_name of the repositories an organization listing returns.
OrgListings ==
  {ArrayOf(<<>>),
   ArrayOf(<<<<"org1", "/", "repoA">>>>),
   ArrayOf(<<<<"org1", "/", "repoA">>, <<"org1", "/", "repoB">>>>),
   NotAnArray}

MsgUnauthorized == <<"gh: Bad credentials (HTTP ", "401", ")">>

OrgFailures == {MsgNotFound, MsgForbidden, MsgUnauthorized, MsgJson}

\* isOrganizationUrl: exactly one non-empty path segment; false when the
\* URL does not parse.
isOrganizationUrl(url) ==
  IF UrlParses(url)
  THEN Len(FilterBoolean(SplitSlash(UrlPathname(url)))) = 1
  ELSE FALSE

\* The first pass: organization URLs apart from every other input.
OrgUrlsOf(inputs) == SelectSeq(inputs, isOrganizationUrl)
RepoUrlsOf(inputs) == SelectSeq(inputs, LAMBDA u : ~isOrganizationUrl(u))

\* tokensByHostname of parseConfigAndGroupRepos: only the instances.
RouteTokensByHostname(cfg, e) ==
  IF cfg.ghes_instances.isArray
  THEN AddInstanceTokens(EmptyObject, cfg.ghes_instances.items, e.vars)
  ELSE EmptyObject

InvalidRecord(url, error) == [url |-> url, error |-> error]

\* fetchOrganizationRepos: the full URLs of a listing.
OrgRepoUrls(hostname, listing) ==
  [i \in DOMAIN listing |-> <<"https://">> \o hostname \o <<"/">> \o listing[i]]

\* One error text for every failure.
OrgErrorMessageGeneric(message) == <<"Failed to fetch repositories">>

\* fetchOrganizationRepos: the error reported for a failure message.
OrgErrorMessage(message) ==
  IF Includes(message, "404")
  THEN <<"Organization not found or not accessible with provided token">>
  ELSE IF Includes(message, "403")
  THEN <<"Access denied. Token may lack permissions to access organization">>
  ELSE IF Includes(message, "401")
  THEN <<"Authentication failed. Token may be invalid or expired">>
  ELSE message

\* The instance hostname used for matching: the api_url's hostname without
\* a leading "api.".
InstanceHostname(instance) == StripApiPrefix(UrlHostname(instance.api_url))

\* The suffix test without its separating dot.
HostnameMatchesAnySuffix(hostname, instanceHostname) ==
  hostname = instanceHostname \/ EndsWith(hostname, instanceHostname)

\* hostname === instanceHostname || hostname.endsWith(`.${instanceHostname}`)
HostnameMatches(hostname, instanceHostname) ==
  hostname = instanceHostname \/ EndsWith(hostname, <<".">> \o instanceHostname)

\* The indices of the instances a hostname matches, in configuration order;
\* an instance whose api_url does not parse is passed over.
MatchingInstances(hostname, cfg) ==
  IF cfg.ghes_instances.isArray
  THEN SelectSeq([i \in DOMAIN cfg.ghes_instances.items |-> i],
                 LAMBDA i :
                   /\ UrlParses(cfg.ghes_instances.items[i].api_url)
                   /\ HostnameMatches(hostname,
                                      InstanceHostname(cfg.ghes_instances.items[i])))
  ELSE <<>>

MatrixItem(hostname, name, apiUrl, authVar, reposList, f, minRemaining) ==
  [hostname |-> hostname,
   instance_name |-> name,
   api_url |-> apiUrl,
   auth_var |-> authVar,
   repositories |-> reposList,
   enable_secret_scanning |-> f.enableSecretScanning,
   enable_code_scanning |-> f.enableCodeScanning,
   enable_dependabot_alerts |-> f.enableDependabotAlerts,
   min_remaining_licenses |-> minRemaining]

InstanceItem(hostname, reposList, instance, f, minRemaining) ==
  MatrixItem(hostname, instance.name, instance.api_url, instance.auth_var,
             reposList, f, minRemaining)

\* A hostname that matches no instance gets no item.
ItemsForHostnameMatchedOnly(hostname, reposList, cfg, f, minRemaining) ==
  LET matches == MatchingInstances(hostname, cfg)
  IN IF matches # <<>>
     THEN <<InstanceItem(hostname, reposList,
                         cfg.ghes_instances.items[matches[1]], f, minRemaining)>>
     ELSE <<>>

\* The loop over the instances without its break: one item per match.
ItemsForHostnameNoBreak(hostname, reposList, cfg, f, minRemaining) ==
  LET matches == MatchingInstances(hostname, cfg)
  IN IF matches # <<>>
     THEN [k \in DOMAIN matches |->
             InstanceItem(hostname, reposList,
                          cfg.ghes_instances.items[matches[k]], f, minRemaining)]
     ELSE <<MatrixItem(hostname, "unknown",
                       Url(hostname, <<"/", "api", "/", "v3">>),
                       "GH_ENTERPRISE_TOKEN", reposList, f, minRemaining)>>

\* The matrix items pushed for one hostname: the first matching instance
\* (the loop breaks there), or the default values when none matches.
ItemsForHostname(hostname, reposList, cfg, f, minRemaining) ==
  LET matches == MatchingInstances(hostname, cfg)
  IN IF matches # <<>>
     THEN <<InstanceItem(hostname, reposList,
                         cfg.ghes_instances.items[matches[1]], f, minRemaining)>>
     ELSE <<MatrixItem(hostname, "unknown",
                       Url(hostname, <<"/", "api", "/", "v3">>),
                       "GH_ENTERPRISE_TOKEN", reposList, f, minRemaining)>>

\* groupedRepos: the hostnames in the order they were first seen, each with
\* its repositories in input order.
GroupKeys(repos) ==
  SetAddAll(<<>>, [i \in DOMAIN SelectSeq(repos, UrlParses) |->
                     UrlHostname(SelectSeq(repos, UrlParses)[i])])

\* The grouping loop stopped by the first URL that does not parse.
GroupOfUntilInvalid(hostname, repos) ==
  LET bad == {i \in DOMAIN repos : ~UrlParses(repos[i])}
      stop == IF bad = {} THEN Len(repos) + 1
              ELSE CHOOSE i \in bad : \A j \in bad : i <= j
  IN SelectSeq(SubSeq(repos, 1, stop - 1), LAMBDA r : UrlHostname(r) = hostname)

GroupOf(hostname, repos) ==
  SelectSeq(repos, LAMBDA r : UrlParses(r) /\ UrlHostname(r) = hostname)

\* The repositories whose URL does not parse, with new URL's message.
UnparseableRecords(repos) ==
  LET bad == SelectSeq(repos, LAMBDA r : ~UrlParses(r))
  IN [i \in DOMAIN bad |-> InvalidRecord(bad[i], <<"Invalid URL">>)]

RECURSIVE BuildMatrix(_, _, _, _, _)
BuildMatrix(keys, repos, cfg, f, minRemaining) ==
  IF keys = <<>> THEN <<>>
  ELSE ItemsForHostname(Head(keys), GroupOf(Head(keys), repos), cfg, f, minRemaining)
         \o BuildMatrix(Tail(keys), repos, cfg, f, minRemaining)

InitRoute ==
  /\ pc = "route"
  /\ inputRepos \in InputLists
  /\ config \in RouteConfigs
  /\ env \in [MIN_REMAINING_LICENSES : {<<>>}, vars : RouteEnvVars]
  /\ features = RouteFeatures
  /\ skipCheck = FALSE
  /\ repositories = <<>>
  /\ ghasData = NoSnapshot
  /\ tokensByHostname = EmptyObject
  /\ idx = 1
  /\ allCommitters = <<>>
  /\ observedRaw = {}
  /\ calls = <<>>
  /\ billingReplies = <<>>
  /\ fetchReplies = <<>>
  /\ result = NoResult
  /\ thrown = <<>>
  /\ orgUrls = <<>>
  /\ invalidRepositories = <<>>
  /\ validRepositories = <<>>
  /\ matrixItems = <<>>
  /\ dryRun = FALSE
  /\ comment = <<>>
  /\ matrixAuthVar = ""
  /\ secrets = EmptyObject
  /\ tokenName = ""
  /\ tokenValue = ""

licenseOnlyVars ==
  <<skipCheck, ghasData, allCommitters, observedRaw, billingReplies, result, thrown>>

\* The code after the expansion of the organization URLs: grouping by
\* hostname, the invalid repository URLs, the matrix, the return.
GroupAndReturn(repos, invalid) ==
  /\ validRepositories' = SelectSeq(repos, UrlParses)
  /\ invalidRepositories' = invalid \o UnparseableRecords(repos)
  /\ matrixItems' =
       BuildMatrix(GroupKeys(repos), repos, config, features,
                   RouteMinRemainingLicenses)
  /\ pc' = "routed"

\* The first pass and, when there is no organization URL, everything else.
ClassifyReferences ==
  /\ pc = "route"
  /\ orgUrls' = OrgUrlsOf(inputRepos)
  /\ repositories' = RepoUrlsOf(inputRepos)
  /\ IF OrgUrlsOf(inputRepos) = <<>>
     THEN /\ GroupAndReturn(RepoUrlsOf(inputRepos), <<>>)
          /\ UNCHANGED tokensByHostname
     ELSE /\ tokensByHostname' = RouteTokensByHostname(config, env)
          /\ pc' = "expand"
          /\ UNCHANGED <<validRepositories, invalidRepositories, matrixItems>>
  /\ UNCHANGED <<inputRepos, config, env, features, idx, calls, fetchReplies,
                 licenseOnlyVars, reportVars, credentialVars>>

\* orgUrls.forEach: the end of one iteration, and after the last one the
\* rest of parseConfigAndGroupRepos.
OrganizationDone(repos, invalid) ==
  /\ repositories' = repos
  /\ idx' = idx + 1
  /\ IF idx = Len(orgUrls)
     THEN GroupAndReturn(repos, invalid)
     ELSE /\ invalidRepositories' = invalid
          /\ UNCHANGED <<validRepositories, matrixItems, pc>>
  /\ UNCHANGED <<inputRepos, orgUrls, config, env, features, tokensByHostname,
                 licenseOnlyVars, reportVars, credentialVars>>

\* An organization URL whose hostname has no token: it is recorded as
\* invalid, unless config.ghes_instances is no array: then .find throws and
\* the catch around the iteration only logs.
OrganizationWithoutToken ==
  /\ pc = "expand"
  /\ idx <= Len(orgUrls)
  /\ ObjGet(tokensByHostname, UrlHostname(orgUrls[idx])) = ""
  /\ OrganizationDone(
       repositories,
       IF config.ghes_instances.isArray
       THEN Append(invalidRepositories,
                   InvalidRecord(orgUrls[idx],
                     <<"No authentication token available for this hostname">>))
       ELSE invalidRepositories)
  /\ UNCHANGED <<calls, fetchReplies>>

\* fetchOrganizationRepos with a request to the organization's listing.
ExpandOrganization ==
  /\ pc = "expand"
  /\ idx <= Len(orgUrls)
  /\ ObjGet(tokensByHostname, UrlHostname(orgUrls[idx])) # ""
  /\ calls' = Append(calls, HostCall("listRepositories", "", orgUrls[idx]))
  /\ \/ \E listing \in OrgListings :
          /\ fetchReplies' =
               Append(fetchReplies,
                      HostReply(orgUrls[idx],
                                IF listing.isArray THEN Answered ELSE AnsweredNoArray))
          /\ IF listing.isArray
             THEN OrganizationDone(
                    repositories \o OrgRepoUrls(UrlHostname(orgUrls[idx]), listing.items),
                    invalidRepositories)
             ELSE OrganizationDone(
                    repositories,
                    Append(invalidRepositories,
                           InvalidRecord(orgUrls[idx],
                                         <<"Invalid response format from API">>)))
     \/ \E message \in OrgFailures :
          /\ fetchReplies' =
               Append(fetchReplies, HostReply(orgUrls[idx], Failed(message)))
          /\ OrganizationDone(
               repositories,
               Append(invalidRepositories,
                      InvalidRecord(orgUrls[idx], OrgErrorMessage(message))))

NextRoute ==
  \/ ClassifyReferences
  \/ OrganizationWithoutToken
  \/ ExpandOrganization

SpecRoute == InitRoute /\ [][NextRoute]_vars

\* -------------------------------------------------- createResultsComment
\* One line of the comment: its fixed text and the values printed in it.
Line(text, arg, error, num) == [text |-> text, arg |-> arg, error |-> error, num |-> num]

TextLine(text) == Line(text, <<>>, <<>>, 0)
ArgLine(text, arg) == Line(text, arg, <<>>, 0)
NumLine(text, num) == Line(text, <<>>, <<>>, num)

When(cond, lines) == IF cond THEN lines ELSE <<>>

\* The parameters the workflow passes: the features, the group's
\* repositories, the license information, dryRun and the invalid references.
Params(f, repos, license, hostname, organizationUrls, dry, invalid) ==
  [enableSecretScanning |-> f.enableSecretScanning,
   enableCodeScanning |-> f.enableCodeScanning,
   enableDependabotAlerts |-> f.enableDependabotAlerts,
   repositories |-> repos,
   license |-> license,
   hostname |-> hostname,
   organizationUrls |-> organizationUrls,
   dryRun |-> dry,
   invalidRepositories |-> invalid]

\* The committer analysis lines of the license summary.
CommitterLines(license) ==
  When("newCommitters" \in license.keys /\ "estimatedLicensesNeeded" \in license.keys,
       <<NumLine("- New committers requiring licenses: ", license.newCommitters),
         NumLine("- Estimated licenses needed: ", license.estimatedLicensesNeeded)>>
       \o When("newCommittersList" \in license.keys,
               IF Len(license.newCommittersList) > 0 /\ Len(license.newCommittersList) <= 10
               THEN <<TextLine("**New committer emails:**")>>
                    \o [i \in DOMAIN license.newCommittersList |->
                          ArgLine("- ", license.newCommittersList[i])]
               ELSE When(Len(license.newCommittersList) > 10,
                         <<NumLine("unique committers identified (too many to list)",
                                   Len(license.newCommittersList))>>)))

\* The license part of the comment.
LicenseLines(license) ==
  IF license.skipLicenseCheck
  THEN <<TextLine("**License Check: SKIPPED**"),
         TextLine("License check was skipped as requested in the issue form.")>>
  ELSE <<TextLine("**License Summary:**"),
         IF license.totalLicenses.defined
         THEN NumLine("- Total GHAS licenses: ", license.totalLicenses.value)
         ELSE TextLine("- Total GHAS licenses: undefined"),
         NumLine("- Used GHAS licenses: ", license.usedLicenses)>>
       \o CommitterLines(license)
       \o <<NumLine("- Available GHAS licenses after enablement: ", license.availableLicenses),
            NumLine("- Minimum required remaining licenses: ", license.minRemainingLicenses)>>

NotEnoughLine(license) ==
  NumLine("Not enough GHAS licenses available. Need to maintain at least N unused licenses.",
          license.minRemainingLicenses)

\* The feature line that says enabled in a dry run too.
FeatureLineAlwaysEnabled(dry, name) ==
  TextLine("- enabled: " \o name)

FeatureLine(dry, name) ==
  TextLine((IF dry THEN "- selected: " ELSE "- enabled: ") \o name)

\* The two sections of the invalid references.
InvalidLines(invalid) ==
  LET invalidOrganizations == SelectSeq(invalid, LAMBDA item : isOrganizationUrl(item.url))
      invalidRepos == SelectSeq(invalid, LAMBDA item : ~isOrganizationUrl(item.url))
      item(r) == Line("- **url**  - Error: ", r.url, r.error, 0)
  IN When(invalidOrganizations # <<>>,
          <<TextLine("### Invalid Organizations (Skipped)")>>
          \o [i \in DOMAIN invalidOrganizations |-> item(invalidOrganizations[i])])
     \o When(invalidRepos # <<>>,
             <<TextLine("### Invalid Repositories (Skipped)")>>
             \o [i \in DOMAIN invalidRepos |-> item(invalidRepos[i])])

\* The features, organizations, invalid references and repositories.
FeatureAndRepositoryLines(params) ==
  IF /\ ~params.enableSecretScanning
     /\ ~params.enableCodeScanning
     /\ ~params.enableDependabotAlerts
  THEN <<TextLine("No GHAS features were selected for enablement.")>>
  ELSE <<TextLine(IF params.dryRun THEN "### Features Selected" ELSE "### Features Enabled")>>
       \o When(params.enableSecretScanning,
               <<FeatureLine(params.dryRun, "Secret Scanning")>>)
       \o When(params.enableCodeScanning,
               <<FeatureLine(params.dryRun, "Code Scanning (default setup)")>>)
       \o When(params.enableDependabotAlerts,
               <<FeatureLine(params.dryRun, "Dependabot Alerts")>>)
       \o When(params.organizationUrls # <<>>,
               <<TextLine("### Organization(s)")>>
               \o [i \in DOMAIN params.organizationUrls |->
                     ArgLine("- organization: ", params.organizationUrls[i])])
       \o InvalidLines(params.invalidRepositories)
       \o <<TextLine((IF params.invalidRepositories # <<>> THEN "### Valid " ELSE "### ")
                     \o "Repositories"
                     \o (IF params.dryRun THEN " (No Changes Applied)" ELSE " Enabled"))>>
       \o [i \in DOMAIN params.repositories |->
             ArgLine("- repository: ", params.repositories[i])]

NextStepsLines ==
  <<TextLine("### Next steps"),
    TextLine("This was a dry run analysis. Set Dry Run Mode to No to proceed.")>>

\* The comment without the return after the not-enough-licenses line.
createResultsCommentNoReturn(params) ==
  <<ArgLine(IF params.dryRun THEN "## GHAS Dry Run Analysis for "
            ELSE "## GHAS Enablement Results for ", params.hostname)>>
  \o When(params.dryRun,
          <<TextLine("DRY RUN MODE: No changes have been made to your repositories.")>>)
  \o LicenseLines(params.license)
  \o When(~params.license.skipLicenseCheck /\ ~params.license.hasEnoughLicenses,
          <<NotEnoughLine(params.license)>>)
  \o FeatureAndRepositoryLines(params)
  \o When(params.dryRun, NextStepsLines)

createResultsComment(params) ==
  <<ArgLine(IF params.dryRun THEN "## GHAS Dry Run Analysis for "
            ELSE "## GHAS Enablement Results for ", params.hostname)>>
  \o When(params.dryRun,
          <<TextLine("DRY RUN MODE: No changes have been made to your repositories.")>>)
  \o LicenseLines(params.license)
  \o (IF ~params.license.skipLicenseCheck /\ ~params.license.hasEnoughLicenses
      THEN <<NotEnoughLine(params.license)>>
      ELSE FeatureAndRepositoryLines(params)
           \o When(params.dryRun, NextStepsLines))

\* ------------------------------------------------------ enablement run
\* The environment of the runs whose report is built.
ReportEnv == [MIN_REMAINING_LICENSES |-> <<>>, vars |-> CHOOSE v \in EnvVars : TRUE]

ReportSnapshots ==
  {d \in BillingSnapshots :
     d.repositories = NotAnArray /\ d.total_advanced_security_committers = 1}

\* The license information a run can hand to the report: the skipped check,
\* the base check and the analysed check, approved and not.
ReportLicenses ==
  {SkipResult(ReportEnv)}
  \cup {BaseResult(ReportEnv, d) : d \in ReportSnapshots}
  \cup {AnalysedResult(ReportEnv, d, cs) :
          d \in ReportSnapshots, cs \in {<<>>, <<EmailLowerA>>}}

ReportInvalidRepositories ==
  {<<>>,
   <<InvalidRecord(NoScheme, <<"Invalid URL">>)>>,
   <<InvalidRecord(OrgMain, <<"No authentication token available for this hostname">>),
     InvalidRecord(NoScheme, <<"Invalid URL">>)>>}

InitReport ==
  /\ pc = "execute"
  /\ features \in FeatureSelections
  /\ dryRun \in BOOLEAN
  /\ result \in ReportLicenses
  /\ repositories \in SeqsUpTo({RepoA, RepoB}, MaxRepos)
  /\ invalidRepositories \in ReportInvalidRepositories
  /\ orgUrls \in {<<>>, <<OrgMain>>}
  /\ env = ReportEnv
  /\ config = LicenseConfig
  /\ skipCheck = result.skipLicenseCheck
  /\ ghasData = NoSnapshot
  /\ tokensByHostname = EmptyObject
  /\ idx = 1
  /\ allCommitters = <<>>
  /\ observedRaw = {}
  /\ calls = <<>>
  /\ billingReplies = <<>>
  /\ fetchReplies = <<>>
  /\ thrown = <<>>
  /\ inputRepos = <<>>
  /\ validRepositories = <<>>
  /\ matrixItems = <<>>
  /\ comment = <<>>
  /\ matrixAuthVar = ""
  /\ secrets = EmptyObject
  /\ tokenName = ""
  /\ tokenValue = ""

\* The plan is carried out: it is approved and the run is no dry run.
Executes == result.hasEnoughLicenses /\ ~dryRun

\* The features selected, in the order they are enabled.
SelectedFeatures(f) ==
  When(f.enableSecretScanning, <<"secret_scanning">>)
  \o When(f.enableCodeScanning, <<"code_scanning">>)
  \o When(f.enableDependabotAlerts, <<"dependabot_alerts">>)

\* The mutating requests for one repository: the prerequisite when it is not
\* active yet, then one request per selected feature.
EnablementCalls(repo, f, active) ==
  When(~active, <<HostCall("enableAdvancedSecurity", "", repo)>>)
  \o [i \in DOMAIN SelectedFeatures(f) |->
        HostCall("enableFeature", SelectedFeatures(f)[i], repo)]

\* The executor enables the selected features on the next repository.
EnableRepository ==
  /\ pc = "execute"
  /\ Executes
  /\ idx <= Len(repositories)
  /\ \E active \in BOOLEAN :
       calls' = calls \o EnablementCalls(repositories[idx], features, active)
  /\ idx' = idx + 1
  /\ UNCHANGED <<pc, argVars, ghasData, tokensByHostname, allCommitters, observedRaw,
                 billingReplies, fetchReplies, result, thrown, routeVars, reportVars,
                 credentialVars>>

\* The report of the run, built when the executor has nothing left to do.
ReportResults ==
  /\ pc = "execute"
  /\ ~Executes \/ idx > Len(repositories)
  /\ comment' =
       createResultsComment(
         Params(features, repositories, result, MainHost, orgUrls, dryRun,
                invalidRepositories))
  /\ pc' = "reported"
  /\ UNCHANGED <<argVars, ghasData, tokensByHostname, idx, allCommitters, observedRaw,
                 calls, billingReplies, fetchReplies, result, thrown, routeVars, dryRun,
                 credentialVars>>

NextReport ==
  \/ EnableRepository
  \/ ReportResults

SpecReport == InitReport /\ [][NextReport]_vars

\* ------------------------------------------------------ token resolution
TokenNames == {"GH_ENTERPRISE_TOKEN", "GHES_API_TOKEN_1", "GHES_API_TOKEN_2"}

\* matrix.auth_var: absent, the text 'null', or the name of a secret.
AuthVars == {"", "null"} \cup TokenNames

TokenValues == {"tok-a", "tok-b"}

\* The secrets of the workflow: any of the names may be set.
SecretSets == UNION {[S -> TokenValues] : S \in SUBSET TokenNames}

determineTokenName(a) ==
  IF a # "" /\ a # "null" THEN a ELSE "GH_ENTERPRISE_TOKEN"

\* secrets?.GH_ENTERPRISE_TOKEN || ''
getTokenValue(name, secs) == ObjGet(secs, "GH_ENTERPRISE_TOKEN")

InitToken ==
  /\ pc = "token"
  /\ matrixAuthVar \in AuthVars
  /\ secrets \in SecretSets
  /\ tokenName = ""
  /\ tokenValue = ""
  /\ env = ReportEnv
  /\ config = LicenseConfig
  /\ features = CHOOSE f \in FeatureSelections : TRUE
  /\ skipCheck = FALSE
  /\ repositories = <<>>
  /\ ghasData = NoSnapshot
  /\ tokensByHostname = EmptyObject
  /\ idx = 1
  /\ allCommitters = <<>>
  /\ observedRaw = {}
  /\ calls = <<>>
  /\ billingReplies = <<>>
  /\ fetchReplies = <<>>
  /\ result = NoResult
  /\ thrown = <<>>
  /\ inputRepos = <<>>
  /\ orgUrls = <<>>
  /\ invalidRepositories = <<>>
  /\ validRepositories = <<>>
  /\ matrixItems = <<>>
  /\ dryRun = FALSE
  /\ comment = <<>>

tokenFrame ==
  <<argVars, ghasData, tokensByHostname, idx, allCommitters, observedRaw, calls,
    billingReplies, fetchReplies, result, thrown, routeVars, reportVars>>

DetermineTokenName ==
  /\ pc = "token"
  /\ tokenName' = determineTokenName(matrixAuthVar)
  /\ pc' = "named"
  /\ UNCHANGED <<matrixAuthVar, secrets, tokenValue, tokenFrame>>

GetTokenValue ==
  /\ pc = "named"
  /\ tokenValue' = getTokenValue(tokenName, secrets)
  /\ pc' = "resolved"
  /\ UNCHANGED <<matrixAuthVar, secrets, tokenName, tokenFrame>>

NextToken ==
  \/ DetermineTokenName
  \/ GetTokenValue

SpecToken == InitToken /\ [][NextToken]_vars

\* ------------------------------------------------ properties: licenses
Returned == pc = "returned"

Analysed == Returned /\ ~skipCheck /\ repositories # <<>>

TotalSeats == ghasData.purchased_advanced_security_committers
UsedSeatCount == ghasData.total_advanced_security_committers

LimitedPool == TotalSeats.defined /\ TotalSeats.value > 0

\* The raw last_pushed_email values of the snapshot.
LicensedRaw ==
  IF ghasData.repositories.isArray
  THEN UNION {IF r.isArray THEN Range(r.items) \ {NoEmail} ELSE {} :
                r \in Range(ghasData.repositories.items)}
  ELSE {}

\* Two raw strings differ at most in letter case.
SameLetter(c, d) ==
  \/ c = d
  \/ {c, d} \in {{"A", "a"}, {"B", "b"}, {"X", "x"}}

SameIgnoringCase(x, y) ==
  Len(x) = Len(y) /\ \A i \in DOMAIN x : SameLetter(x[i], y[i])

ObservedIdentities == {ToLowerCase(e) : e \in observedRaw}
LicensedIdentities == {ToLowerCase(e) : e \in LicensedRaw}

BillingCalls == SelectSeq(calls, LAMBDA c : c.op = "billing")

\* C1: with a limited seat pool and a non-empty repository set the plan is
\* approved exactly when totalSeats - usedSeats - estimatedSeatsNeeded is at
\* least the minimum headroom; equality is acceptance.
C1_DecisionBoundary ==
  (Analysed /\ LimitedPool) =>
    (result.hasEnoughLicenses <=>
       TotalSeats.value - UsedSeatCount - result.estimatedLicensesNeeded
         >= result.minRemainingLicenses)

\* C1 witness: the boundary case, 3 seats, none used, 2 needed, headroom 1.
C1_Witness ==
  /\ Analysed
  /\ TotalSeats = [defined |-> TRUE, value |-> 3]
  /\ UsedSeatCount = 0
  /\ result.estimatedLicensesNeeded = 2
  /\ result.minRemainingLicenses = 1
  /\ result.hasEnoughLicenses

\* C2: when totalSeats is 0 or absent the plan is approved and the reported
\* available seats are the unlimited sentinel, whatever usedSeats, the
\* estimate and the headroom are, on the empty and on the analysed path.
C2_UnlimitedSentinel ==
  (Returned /\ ~skipCheck /\ ~LimitedPool) =>
    /\ result.hasEnoughLicenses
    /\ result.availableLicenses = MAX_SAFE_INTEGER
    /\ result.availableLicenses >= 0

\* C2 witness: total 0 with one seat used, two new committers and headroom 2.
C2_Witness ==
  /\ Analysed
  /\ TotalSeats = [defined |-> TRUE, value |-> 0]
  /\ UsedSeatCount = 1
  /\ result.estimatedLicensesNeeded = 2
  /\ result.minRemainingLicenses = 2
  /\ result.hasEnoughLicenses

\* C3: estimatedSeatsNeeded is the size of (observed identities) minus
\* (already-licensed identities); an observed identity that is licensed adds
\* nothing to it, and newCommittersList holds no licensed identity.
C3_EstimateIsSetDifference ==
  Analysed =>
    /\ result.estimatedLicensesNeeded =
         Cardinality(ObservedIdentities \ LicensedIdentities)
    /\ \A e \in LicensedIdentities :
         Cardinality((ObservedIdentities \cup {e}) \ LicensedIdentities)
           = result.estimatedLicensesNeeded
    /\ Range(result.newCommittersList) \cap LicensedIdentities = {}
    /\ result.newCommitters = result.estimatedLicensesNeeded

\* C3 witness: two identities observed, one of them licensed, one seat needed.
C3_Witness ==
  /\ Analysed
  /\ Cardinality(ObservedIdentities) = 2
  /\ Cardinality(ObservedIdentities \cap LicensedIdentities) = 1
  /\ result.estimatedLicensesNeeded = 1

\* C4: normalization is idempotent and case-insensitive on both sides of the
\* diff: raw strings that differ only in case are one identity, are counted
\* at most once, and an observed email that differs only in case from a
\* licensed one is never counted as new.
C4_CaseInsensitiveIdentities ==
  Analysed =>
    /\ \A e \in observedRaw \cup LicensedRaw :
         ToLowerCase(ToLowerCase(e)) = ToLowerCase(e)
    /\ \A e, f \in observedRaw \cup LicensedRaw :
         SameIgnoringCase(e, f) => ToLowerCase(e) = ToLowerCase(f)
    /\ \A i, j \in DOMAIN result.newCommittersList :
         SameIgnoringCase(result.newCommittersList[i], result.newCommittersList[j])
           => i = j
    /\ \A e \in observedRaw : \A l \in LicensedRaw :
         SameIgnoringCase(e, l) =>
           \A n \in Range(result.newCommittersList) : ~SameIgnoringCase(n, e)

\* C4 witness: A@x and a@x were both observed, the only licensed email is
\* A@x, which differs from the observed a@x in case alone, and b@x is new.
C4_Witness ==
  /\ Analysed
  /\ {EmailUpperA, EmailLowerA, EmailUpperB} \subseteq observedRaw
  /\ LicensedRaw = {EmailUpperA}
  /\ result.newCommittersList = <<EmailLowerB>>

\* C8: with skipCheck the result is approved, needs no seats, lists no new
\* committers and carries skipLicenseCheck; no result of a check that ran
\* carries that marker.
C8_SkipCheck ==
  /\ (Returned /\ skipCheck) =>
       /\ result.hasEnoughLicenses
       /\ result.estimatedLicensesNeeded = 0
       /\ result.newCommitters = 0
       /\ result.newCommittersList = <<>>
       /\ result.skipLicenseCheck
  /\ (Returned /\ ~skipCheck) => ~result.skipLicenseCheck
  /\ skipCheck => pc \in {"start", "returned"}

\* C8 witness: a skipped check over a non-empty repository list has returned.
C8_Witness == Returned /\ skipCheck /\ Len(repositories) = 2 /\ result.skipLicenseCheck

\* C9: the first billing request carries no product parameter; a second one
\* exists only after the first was rejected with 422, carries the derived
\* product, and follows every such rejection; there are never more than two,
\* and after a failure that ends the run no request is issued.
C9_Inv ==
  /\ Len(BillingCalls) <= 2
  /\ Len(billingReplies) <= Len(BillingCalls)
  /\ Len(BillingCalls) >= 1 => BillingCalls[1].product = ""
  /\ Len(BillingCalls) = 2 =>
       /\ billingReplies[1] = Failed(MsgUnprocessable)
       /\ BillingCalls[2].product \in {"code_security", "secret_protection"}
  /\ (Len(billingReplies) >= 1 /\ billingReplies[1] = Failed(MsgUnprocessable)) =>
       (pc = "retry" \/ Len(BillingCalls) = 2)
  /\ pc = "retry" => Len(BillingCalls) = 1
  /\ pc = "thrown" =>
       /\ ~billingReplies[Len(billingReplies)].ok
       /\ Len(billingReplies) = Len(BillingCalls)
       /\ (Len(BillingCalls) = 1 => billingReplies[1] # Failed(MsgUnprocessable))

C9_BillingRetryProtocol ==
  /\ []C9_Inv
  /\ [][pc = "thrown" => calls' = calls]_vars
  /\ [][Len(billingReplies) = 2 =>
          SelectSeq(calls', LAMBDA c : c.op = "billing") = BillingCalls]_vars

\* C9 witness: a rejected first request was retried and the retry succeeded.
C9_Witness ==
  /\ Len(BillingCalls) = 2
  /\ billingReplies = <<Failed(MsgUnprocessable), Answered>>
  /\ Returned

\* C10: the product of the retry is secret_protection when secret scanning
\* is selected without code scanning and code_security for every other
\* selection, whatever the dependabot flag.
C10_ProductOfFeatures ==
  Len(BillingCalls) = 2 =>
    BillingCalls[2].product =
      IF features.enableSecretScanning /\ ~features.enableCodeScanning
      THEN "secret_protection"
      ELSE "code_security"

\* C10 witness: both scanning features selected, the retry asked code_security.
C10_Witness ==
  /\ Len(BillingCalls) = 2
  /\ features.enableSecretScanning
  /\ features.enableCodeScanning
  /\ ~features.enableDependabotAlerts
  /\ BillingCalls[2].product = "code_security"

\* ------------------------------------------------- properties: routing
Routed == pc = "routed"

Instances == IF config.ghes_instances.isArray THEN config.ghes_instances.items ELSE <<>>

\* H == D.hostname, or H is a non-empty label prefix, a dot, then D.hostname.
IsHostOrSubdomain(H, D) ==
  \/ H = D
  \/ /\ Len(H) > Len(D)
     /\ H[Len(H) - Len(D)] = "."
     /\ \A i \in 1..Len(D) : H[Len(H) - Len(D) + i] = D[i]

\* The descriptors a hostname is eligible for: their api_url parses and the
\* hostname is the descriptor's hostname or a subdomain of it.
Eligible(H) ==
  {i \in DOMAIN Instances :
     /\ UrlParses(Instances[i].api_url)
     /\ IsHostOrSubdomain(H, InstanceHostname(Instances[i]))}

FirstEligible(H) == CHOOSE i \in Eligible(H) : \A j \in Eligible(H) : i <= j

ItemsOfHostname(H) == {k \in DOMAIN matrixItems : matrixItems[k].hostname = H}

RoutedHostnames == {UrlHostname(validRepositories[i]) : i \in DOMAIN validRepositories}

\* C5: once parseConfigAndGroupRepos has returned, every repository hostname
\* has exactly one matrix item; the item carries the first instance, in
\* configuration order, whose hostname equals the repository hostname or is
\* a dot-separated suffix of it, and the default values when there is none.
\* A hostname that merely ends with or resembles the instance hostname
\* (mygithub.example.com, github-test.example.com) is never given to the
\* instance at github.example.com; a subdomain (ghes1.github.example.com)
\* is always given to a configured instance when that one is configured.
C5_RoutingMatchRule ==
  Routed =>
    /\ \A H \in RoutedHostnames : Cardinality(ItemsOfHostname(H)) = 1
    /\ \A k \in DOMAIN matrixItems :
         LET item == matrixItems[k]
             H == item.hostname
         IN /\ H \in RoutedHostnames
            /\ IF Eligible(H) # {}
               THEN /\ item.instance_name = Instances[FirstEligible(H)].name
                    /\ item.api_url = Instances[FirstEligible(H)].api_url
                    /\ item.auth_var = Instances[FirstEligible(H)].auth_var
               ELSE /\ item.instance_name = "unknown"
                    /\ item.auth_var = "GH_ENTERPRISE_TOKEN"
            /\ (H \in {TrapHost, GlueHost} => item.instance_name # InstanceMain.name)
            /\ (H = SubHost /\ (\E i \in DOMAIN Instances : Instances[i] = InstanceMain)
                  => item.instance_name # "unknown")

\* A subdomain is routed to the instance of its parent domain although a
\* later instance matches it too, next to a look-alike hostname that gets
\* the default values.
C5_Witness ==
  /\ Routed
  /\ Instances = <<InstanceMain, InstanceSub>>
  /\ \E k \in DOMAIN matrixItems :
       matrixItems[k].hostname = SubHost /\ matrixItems[k].instance_name = "main"
  /\ \E k \in DOMAIN matrixItems :
       matrixItems[k].hostname = GlueHost /\ matrixItems[k].instance_name = "unknown"

GroupsHolding(ref) ==
  {k \in DOMAIN matrixItems : ref \in Range(matrixItems[k].repositories)}

\* C6: once parseConfigAndGroupRepos has returned, every element of
\* validRepositories is in the repositories list of exactly one matrix
\* item, and no url recorded in invalidRepositories is in the repositories
\* list of any matrix item.
C6_PartitionInvariant ==
  Routed =>
    /\ \A i \in DOMAIN validRepositories :
         Cardinality(GroupsHolding(validRepositories[i])) = 1
    /\ \A j \in DOMAIN invalidRepositories :
         GroupsHolding(invalidRepositories[j].url) = {}

\* A repository whose hostname matches two configured instances is routed
\* next to a reference that was recorded as invalid.
C6_Witness ==
  /\ Routed
  /\ Instances = <<InstanceMain, InstanceSub>>
  /\ SubRepo \in Range(validRepositories)
  /\ invalidRepositories # <<>>
  /\ matrixItems # <<>>

NoRepeats(q) == \A i, j \in DOMAIN q : q[i] = q[j] => i = j

\* C7: when the input references are pairwise distinct, no matrix item's
\* repositories list names a repository twice, whether it was reached by a
\* direct reference and by the expansion of its organization or by two
\* organizations.
C7_Deduplicated ==
  (Routed /\ NoRepeats(inputRepos)) =>
    \A k \in DOMAIN matrixItems : NoRepeats(matrixItems[k].repositories)

\* ------------------------------------------- properties: failed snapshot
LastBillingReply == billingReplies[Len(billingReplies)]

\* The snapshot could not be obtained: the first request failed for another
\* reason than the missing product parameter, or the retry failed.
SnapshotFetchFailed ==
  /\ billingReplies # <<>>
  /\ ~LastBillingReply.ok
  /\ Len(billingReplies) = 2 \/ billingReplies[1] # Failed(MsgUnprocessable)

\* C11: when the billing snapshot could not be obtained, the call has
\* thrown the error of the failed request and has returned nothing: there
\* is no result, approved or not, and no snapshot; the run takes no further
\* step.  A call only throws when the snapshot could not be obtained.
C11_Inv ==
  /\ SnapshotFetchFailed =>
       /\ pc = "thrown"
       /\ thrown = LastBillingReply.message
       /\ result = NoResult
       /\ ~result.hasEnoughLicenses
       /\ ghasData = NoSnapshot
  /\ pc = "thrown" => SnapshotFetchFailed
  /\ result.keys # {} => ~SnapshotFetchFailed

C11_FatalSnapshotFailure ==
  /\ []C11_Inv
  /\ [][SnapshotFetchFailed => (pc' = "thrown" /\ result' = NoResult)]_vars

\* C11 witness: the retry after a rejected first request failed, and the
\* call threw.
C11_Witness ==
  /\ pc = "thrown"
  /\ Len(billingReplies) = 2
  /\ billingReplies[1] = Failed(MsgUnprocessable)
  /\ billingReplies[2] = Failed(MsgNotFound)
  /\ repositories # <<>>

\* ------------------------------------------ properties: empty repository set
BaseChecked == Returned /\ ~skipCheck /\ repositories = <<>>

\* C12: a call with no repositories and without skipCheck issues no commits
\* request, reports zero new committers and zero licenses needed, and with a
\* limited pool approves exactly when totalLicenses - usedLicenses is at
\* least minRemainingLicenses.
C12_EmptyRepositorySet ==
  BaseChecked =>
    /\ \A i \in DOMAIN calls : calls[i].op # "listCommits"
    /\ result.newCommitters = 0
    /\ result.estimatedLicensesNeeded = 0
    /\ LimitedPool =>
         (result.hasEnoughLicenses <=>
            TotalSeats.value - UsedSeatCount >= result.minRemainingLicenses)

\* ------------------------------------------ properties: classification
PathSegments(ref) == FilterBoolean(SplitSlash(UrlPathname(ref)))

Malformed(ref) == ~UrlParses(ref) \/ Len(PathSegments(ref)) = 0

InvalidUrls == {invalidRepositories[j].url : j \in DOMAIN invalidRepositories}

\* C13: once parseConfigAndGroupRepos has returned, an input whose URL does
\* not parse or has no path segment is recorded in invalidRepositories and
\* is in no matrix item; an input with one path segment is an organization
\* URL and is in no matrix item; an input with two or more segments is a
\* valid repository and is in a matrix item.
C13_ReferenceClassification ==
  Routed =>
    \A i \in DOMAIN inputRepos :
      LET ref == inputRepos[i]
      IN IF Malformed(ref)
         THEN /\ ref \in InvalidUrls
              /\ ref \notin Range(validRepositories)
              /\ GroupsHolding(ref) = {}
         ELSE IF Len(PathSegments(ref)) = 1
         THEN /\ ref \in Range(orgUrls)
              /\ ref \notin Range(validRepositories)
              /\ GroupsHolding(ref) = {}
         ELSE /\ ref \notin Range(orgUrls)
              /\ ref \in Range(validRepositories)
              /\ GroupsHolding(ref) # {}

\* ----------------------------------------- properties: invalid references
Occurrences(q, x) == Cardinality({i \in DOMAIN q : q[i] = x})

RecordsOf(url) == {j \in DOMAIN invalidRepositories : invalidRepositories[j].url = url}

NoCredentialError == <<"No authentication token available for this hostname">>

\* The token the organization loop finds for a URL's hostname.
OrgToken(url) == ObjGet(RouteTokensByHostname(config, env), UrlHostname(url))

ListCallsFor(url) ==
  {i \in DOMAIN calls : calls[i].op = "listRepositories" /\ calls[i].url = url}

\* C15: once parseConfigAndGroupRepos has returned, every organization URL
\* whose hostname has no token has one record in invalidRepositories per
\* occurrence, with the no-token error, and no listRepositories request was
\* issued for it; this for every configuration, with or without instances.
C15_ContainerWithoutCredential ==
  Routed =>
    \A i \in DOMAIN orgUrls :
      OrgToken(orgUrls[i]) = "" =>
        /\ ListCallsFor(orgUrls[i]) = {}
        /\ Cardinality(RecordsOf(orgUrls[i])) = Occurrences(orgUrls, orgUrls[i])
        /\ \A j \in RecordsOf(orgUrls[i]) :
             invalidRepositories[j].error = NoCredentialError

\* The reason expected for each kind of failed listing.
ExpectedReason(reply) ==
  IF reply = Failed(MsgNotFound)
  THEN <<"Organization not found or not accessible with provided token">>
  ELSE IF reply = Failed(MsgForbidden)
  THEN <<"Access denied. Token may lack permissions to access organization">>
  ELSE IF reply = Failed(MsgUnauthorized)
  THEN <<"Authentication failed. Token may be invalid or expired">>
  ELSE IF reply = AnsweredNoArray
  THEN <<"Invalid response format from API">>
  ELSE reply.message

FailedListings(url) ==
  SelectSeq(fetchReplies, LAMBDA r : r.url = url /\ r.reply # Answered)

RecordSeqOf(url) == SelectSeq(invalidRepositories, LAMBDA r : r.url = url)

ListingFailedNow ==
  /\ Len(fetchReplies') = Len(fetchReplies) + 1
  /\ fetchReplies'[Len(fetchReplies')].reply # Answered

\* C16: a listing that fails (not found, forbidden, unauthenticated, an
\* answer that is not an array or not JSON) adds no repository and adds one
\* record for the organization URL whose error names the kind of failure,
\* different kinds giving different errors; and once the function has
\* returned, every organization URL was handled and every directly given
\* repository URL that parses is valid.
C16_Inv ==
  Routed =>
    /\ idx = Len(orgUrls) + 1
    /\ \A i \in DOMAIN orgUrls :
         OrgToken(orgUrls[i]) # "" =>
           LET fails == FailedListings(orgUrls[i])
               recs == RecordSeqOf(orgUrls[i])
           IN /\ Len(recs) = Len(fails)
              /\ \A k \in DOMAIN fails :
                   /\ recs[k].error = ExpectedReason(fails[k].reply)
                   /\ recs[k].error # <<>>
    /\ \A i \in DOMAIN inputRepos :
         (UrlParses(inputRepos[i]) /\ Len(PathSegments(inputRepos[i])) >= 2)
           => inputRepos[i] \in Range(validRepositories)
    /\ \A r1, r2 \in {Failed(m) : m \in OrgFailures} \cup {AnsweredNoArray} :
         r1 # r2 => ExpectedReason(r1) # ExpectedReason(r2)

C16_ExpansionFailure ==
  /\ []C16_Inv
  /\ [][ListingFailedNow =>
          /\ repositories' = repositories
          /\ Len(invalidRepositories') > Len(invalidRepositories)
          /\ invalidRepositories'[Len(invalidRepositories) + 1].url = orgUrls[idx]
          /\ Len(SelectSeq(invalidRepositories', LAMBDA r : r.url = orgUrls[idx]))
               = Len(RecordSeqOf(orgUrls[idx])) + 1]_vars

\* The listing of an organization was forbidden; the repository given next
\* to it is routed.
C16_Witness ==
  /\ Routed
  /\ inputRepos = <<OrgMain, RepoA>>
  /\ fetchReplies = <<HostReply(OrgMain, Failed(MsgForbidden))>>
  /\ validRepositories = <<RepoA>>
  /\ Len(invalidRepositories) = 1

\* -------------------------------------- properties: committer analysis
CommitCalls == SelectSeq(calls, LAMBDA c : c.op = "listCommits")

CommitFetchFailedNow ==
  /\ Len(fetchReplies') = Len(fetchReplies) + 1
  /\ fetchReplies'[Len(fetchReplies')].reply = Unanswered

\* C17: whichever commits requests fail and whichever repository URLs do
\* not parse, the analysis goes through every repository and the call
\* returns; the committers it has gathered are, without repetition, exactly
\* the lower-cased emails of the answered requests; a failed request adds
\* nothing, and the analysis never throws.
C17_Inv ==
  /\ pc = "analyze" => (idx <= Len(repositories) /\ thrown = <<>>)
  /\ pc \in {"analyze", "returned"} /\ ~skipCheck =>
       /\ Range(allCommitters) = ObservedIdentities
       /\ NoRepeats(allCommitters)
       /\ Len(fetchReplies) = Len(CommitCalls)
  /\ Analysed =>
       /\ idx = Len(repositories) + 1
       /\ result.keys # {}
       /\ (\A i \in DOMAIN fetchReplies : fetchReplies[i].reply = Unanswered)
            => (allCommitters = <<>> /\ result.newCommitters = 0)

C17_PartialFailureTolerated ==
  /\ []C17_Inv
  /\ [][pc = "analyze" => pc' \in {"analyze", "returned"}]_vars
  /\ [][CommitFetchFailedNow => (allCommitters' = allCommitters /\ idx' = idx + 1)]_vars

\* The first commits request failed, the second was answered with
\* committers, and the call returned.
C17_Witness ==
  /\ Analysed
  /\ repositories = <<RepoA, RepoA>>
  /\ fetchReplies = <<HostReply(RepoA, Unanswered), HostReply(RepoA, Answered)>>
  /\ allCommitters # <<>>

FailedFetches(url) ==
  SelectSeq(fetchReplies, LAMBDA r : r.url = url /\ r.reply = Unanswered)

\* C18: once the call has returned, every repository whose commits request
\* failed has one record per failed request, with a non-empty error.
C18_FailedFetchRecorded ==
  Analysed =>
    \A i \in DOMAIN fetchReplies :
      fetchReplies[i].reply = Unanswered =>
        /\ Cardinality(RecordsOf(fetchReplies[i].url))
             = Len(FailedFetches(fetchReplies[i].url))
        /\ \A j \in RecordsOf(fetchReplies[i].url) :
             invalidRepositories[j].error # <<>>

\* ---------------------------------------- properties: unmatched hostname
ValidOfHostname(H) == SelectSeq(validRepositories, LAMBDA r : UrlHostname(r) = H)

\* C19: once parseConfigAndGroupRepos has returned, every repository
\* hostname that no configured instance matches has a matrix item with all
\* its repositories, instance_name 'unknown', auth_var GH_ENTERPRISE_TOKEN
\* and api_url https://<hostname>/api/v3; and a matrix item is named
\* 'unknown' exactly when no configured instance matches its hostname.
C19_UnmatchedHostname ==
  Routed =>
    /\ \A H \in RoutedHostnames :
         Eligible(H) = {} =>
           \E k \in DOMAIN matrixItems :
             /\ matrixItems[k].hostname = H
             /\ matrixItems[k].repositories = ValidOfHostname(H)
             /\ matrixItems[k].repositories # <<>>
    /\ \A k \in DOMAIN matrixItems :
         /\ matrixItems[k].instance_name = "unknown"
              <=> Eligible(matrixItems[k].hostname) = {}
         /\ matrixItems[k].instance_name = "unknown" =>
              /\ matrixItems[k].auth_var = "GH_ENTERPRISE_TOKEN"
              /\ matrixItems[k].api_url =
                   <<"https://">> \o matrixItems[k].hostname \o <<"/", "api", "/", "v3">>
         /\ matrixItems[k].instance_name # "unknown" =>
              matrixItems[k].auth_var # "GH_ENTERPRISE_TOKEN"

\* A repository of a host no instance matches is routed next to one of a
\* configured instance.
C19_Witness ==
  /\ Routed
  /\ inputRepos = <<RepoA, OtherRepo>>
  /\ Instances = <<InstanceMain>>
  /\ Len(matrixItems) = 2
  /\ matrixItems[1].instance_name = "main"
  /\ matrixItems[2].instance_name = "unknown"
  /\ matrixItems[2].repositories = <<OtherRepo>>

\* --------------------------------------- properties: group cardinality
\* C20: once parseConfigAndGroupRepos has returned for well-formed
\* references, no two matrix items carry the same instance, and at most one
\* matrix item is named 'unknown'.
C20_GroupCardinality ==
  (Routed /\ \A i \in DOMAIN inputRepos : ~Malformed(inputRepos[i])) =>
    \A k, l \in DOMAIN matrixItems :
      (/\ matrixItems[k].instance_name = matrixItems[l].instance_name
       /\ matrixItems[k].auth_var = matrixItems[l].auth_var)
        => k = l

\* ------------------------------------------ properties: barrier ordering
CallIndices(op) == {i \in DOMAIN calls : calls[i].op = op}

CommitCallIssuedNow ==
  /\ Len(calls') = Len(calls) + 1
  /\ calls'[Len(calls')].op = "listCommits"

\* C21: a commits request is only issued after a billing request was
\* answered with a snapshot: every billing request precedes every commits
\* request, the last billing request was answered, and no billing request
\* follows; after a billing failure that ends the call there is no commits
\* request at all.
C21_Inv ==
  /\ CommitCalls # <<>> =>
       /\ billingReplies # <<>>
       /\ LastBillingReply = Answered
       /\ ghasData \in BillingSnapshots
       /\ \A b \in CallIndices("billing") : \A c \in CallIndices("listCommits") : b < c
  /\ SnapshotFetchFailed => CommitCalls = <<>>
  /\ pc = "analyze" => LastBillingReply = Answered

C21_BarrierOrdering ==
  /\ []C21_Inv
  /\ [][CommitCallIssuedNow =>
          /\ billingReplies # <<>>
          /\ LastBillingReply = Answered
          /\ billingReplies' = billingReplies
          /\ ghasData' = ghasData]_vars

\* C21 witness: the snapshot came with the retry, and a commits request
\* followed it.
C21_Witness ==
  /\ Returned
  /\ Len(billingReplies) = 2
  /\ LastBillingReply = Answered
  /\ Len(CommitCalls) = 2
  /\ calls[Len(calls)].op = "listCommits"

\* ------------------------------------------------ properties: the report
Reported == pc = "reported"

NotApproved == ~result.hasEnoughLicenses /\ ~result.skipLicenseCheck

MutatingCalls ==
  SelectSeq(calls, LAMBDA c : c.op \in {"enableAdvancedSecurity", "enableFeature"})

EnabledTexts ==
  {"### Features Enabled", "- enabled: Secret Scanning",
   "- enabled: Code Scanning (default setup)", "- enabled: Dependabot Alerts",
   "### Repositories Enabled", "### Valid Repositories Enabled"}

SelectedTexts ==
  {"### Features Selected", "- selected: Secret Scanning",
   "- selected: Code Scanning (default setup)", "- selected: Dependabot Alerts",
   "### Repositories (No Changes Applied)", "### Valid Repositories (No Changes Applied)"}

LinesWithText(texts) == {i \in DOMAIN comment : comment[i].text \in texts}

RepositoriesListed(lines) ==
  {lines[i].arg : i \in {j \in DOMAIN lines : lines[j].text = "- repository: "}}

\* C22: a plan that is not approved, the check not being skipped, never
\* leads to a mutating request, and its report ends with the
\* not-enough-licenses line and shows no feature and no repository, enabled
\* or selected.
C22_NotApprovedNoMutation ==
  NotApproved =>
    /\ MutatingCalls = <<>>
    /\ Reported =>
         /\ comment[Len(comment)].text =
              "Not enough GHAS licenses available. Need to maintain at least N unused licenses."
         /\ comment[Len(comment)].num = result.minRemainingLicenses
         /\ LinesWithText(EnabledTexts \cup SelectedTexts) = {}
         /\ RepositoriesListed(comment) = {}

\* C22 witness: a live run over two repositories with a feature selected
\* was not approved and has been reported.
C22_Witness ==
  /\ Reported
  /\ NotApproved
  /\ ~dryRun
  /\ repositories = <<RepoA, RepoB>>
  /\ features.enableSecretScanning
  /\ invalidRepositories # <<>>

\* ---------------------------------------------------- properties: dry run
FeatureNames == {"Secret Scanning", "Code Scanning (default setup)", "Dependabot Alerts"}

\* The features a comment lists, as selected or as enabled.
FeaturesListed(lines) ==
  {n \in FeatureNames :
     \E i \in DOMAIN lines : lines[i].text \in {"- selected: " \o n, "- enabled: " \o n}}

\* The repositories a comment lists, in the order it lists them.
RepositorySeq(lines) ==
  LET listed == SelectSeq(lines, LAMBDA l : l.text = "- repository: ")
  IN [i \in DOMAIN listed |-> listed[i].arg]

ReportOf(dry) ==
  createResultsComment(
    Params(features, repositories, result, MainHost, orgUrls, dry, invalidRepositories))

\* C23: for the same inputs the dry-run report and the live report list the
\* same repositories in the same order and the same features; a dry run
\* issues no mutating request, and its report shows nothing as enabled: an
\* approved dry run with a feature selected lists every repository under
\* the no-changes-applied heading and every feature as selected.
C23_DryRunSameEnumeration ==
  /\ dryRun => MutatingCalls = <<>>
  /\ Reported =>
       /\ comment = ReportOf(dryRun)
       /\ RepositorySeq(ReportOf(TRUE)) = RepositorySeq(ReportOf(FALSE))
       /\ FeaturesListed(ReportOf(TRUE)) = FeaturesListed(ReportOf(FALSE))
       /\ dryRun =>
            /\ LinesWithText(EnabledTexts) = {}
            /\ result.hasEnoughLicenses /\ SelectedFeatures(features) # <<>> =>
                 /\ RepositorySeq(comment) = repositories
                 /\ Cardinality(FeaturesListed(comment)) = Len(SelectedFeatures(features))
                 /\ Cardinality(LinesWithText(SelectedTexts)) =
                      Len(SelectedFeatures(features)) + 2

\* C23 witness: an approved dry run over two repositories with two features
\* selected has been reported, both repositories listed, no request issued.
C23_Witness ==
  /\ Reported
  /\ dryRun
  /\ result.hasEnoughLicenses
  /\ repositories = <<RepoA, RepoB>>
  /\ features.enableSecretScanning
  /\ features.enableDependabotAlerts
  /\ RepositorySeq(comment) = <<RepoA, RepoB>>
  /\ calls = <<>>

\* ------------------------------------- properties: invalid references reported
\* The invalid reference is a line of the comment, with its reason.
ReportedInvalid(r) ==
  \E i \in DOMAIN comment : comment[i].arg = r.url /\ comment[i].error = r.error

\* C24: whatever the outcome of the run, the report lists every invalid
\* reference together with its reason.
C24_InvalidReferencesReported ==
  Reported =>
    \A i \in DOMAIN invalidRepositories : ReportedInvalid(invalidRepositories[i])

\* --------------------------------------------- properties: token resolution
\* C25: getTokenValue returns the secret named tokenName, so two names set
\* to different values give different results.
C25_TokenValueByName ==
  pc = "resolved" /\ tokenName \in DOMAIN secrets =>
    /\ tokenValue = secrets[tokenName]
    /\ \A other \in DOMAIN secrets :
         secrets[other] # secrets[tokenName] =>
           /\ getTokenValue(other, secrets) = secrets[other]
           /\ getTokenValue(other, secrets) # tokenValue

\* --------------------------------------- properties: credential resolution
\* The first instance the router matches the URL's hostname to has a token.
RoutedWithCredential(url) ==
  /\ UrlParses(url)
  /\ LET m == MatchingInstances(UrlHostname(url), config)
     IN /\ m # <<>>
        /\ ObjGet(env.vars, config.ghes_instances.items[m[1]].auth_var) # ""

\* C26: a repository whose hostname the router matches to an instance with
\* its token set, by equality or by the suffix rule, is never passed over
\* by the committer analysis: a commits request is issued for it.
C26_CredentialAgreesWithRouting ==
  \A i \in DOMAIN repositories :
    i < idx /\ RoutedWithCredential(repositories[i]) /\ FetchIssuesRequest(repositories[i]) =>
      \E k \in DOMAIN calls :
        calls[k].op = "listCommits" /\ calls[k].url = repositories[i]

\* ------------------------------------------- properties: every reference
\* The reference is in the repositories of a matrix item.
InSomeGroup(url) ==
  \E k \in DOMAIN matrixItems : url \in Range(matrixItems[k].repositories)

\* The organization URL was expanded: its listing was answered with an array.
Expanded(url) ==
  /\ url \in Range(orgUrls)
  /\ \E k \in DOMAIN fetchReplies :
       fetchReplies[k].url = url /\ fetchReplies[k].reply = Answered

\* C27: once parseConfigAndGroupRepos has returned, every input reference
\* is in a group, was expanded into its repositories, or has a record in
\* invalidRepositories.
C27_EveryReferenceAccounted ==
  Routed =>
    \A i \in DOMAIN inputRepos :
      \/ InSomeGroup(inputRepos[i])
      \/ Expanded(inputRepos[i])
      \/ RecordsOf(inputRepos[i]) # {}

\* ---------------------------------------- properties: order and multiplicity
\* The lists that hold the same repositories in any order, each of them
\* once or more.
Rearrangements(repos) ==
  {q \in SeqsUpTo(Range(repos), Len(repos) + 1) : Range(q) = Range(repos)}

AnalysisStarts == pc = "committers"

\* C28: when getAllUniqueCommitters is called, then for every fixed answer
\* of the host per repository and every rearrangement of the repository
\* list, permuted or with repeated entries, it returns the same identities
\* in the same number, and the analysed result has the same
\* estimatedLicensesNeeded and the same hasEnoughLicenses.
C28_OrderAndMultiplicity ==
  AnalysisStarts =>
    \A host \in HostAnswers :
      LET base == getAllUniqueCommitters(<<>>, repositories, host)
          baseResult == AnalysedResult(env, ghasData, base)
      IN \A repos \in Rearrangements(repositories) :
           LET other == getAllUniqueCommitters(<<>>, repos, host)
               otherResult == AnalysedResult(env, ghasData, other)
           IN /\ Range(other) = Range(base)
              /\ Len(other) = Len(base)
              /\ \/ other = base
                 \/ /\ otherResult.estimatedLicensesNeeded =
                         baseResult.estimatedLicensesNeeded
                    /\ otherResult.hasEnoughLicenses = baseResult.hasEnoughLicenses

\* C28 witness: the analysis of two repositories of one host has returned
\* two identities, and for the answers the host gave, the reversed list
\* yields the same identities in another order.
C28_Witness ==
  /\ pc = "collected"
  /\ repositories = <<RepoA, RepoB>>
  /\ Len(allCommitters) = 2
  /\ \E host \in HostAnswers :
       /\ getAllUniqueCommitters(<<>>, repositories, host) = allCommitters
       /\ getAllUniqueCommitters(<<>>, <<RepoB, RepoA>>, host) # allCommitters
       /\ Range(getAllUniqueCommitters(<<>>, <<RepoB, RepoA>>, host)) =
            Range(allCommitters)

\* ------------------------------------------- properties: minimum headroom
\* C29: parseIssueBody yields a minimum of at least 1 for every text of the
\* field, and every result checkLicenseAvailability returns, skipped or
\* not, carries a minRemainingLicenses of at least 1.
C29_MinimumHeadroom ==
  /\ \A raw \in MinRemainingRaw \cup {<<"x">>, <<"-", "x">>} : ValidMinLicenses(raw) >= 1
  /\ Returned => result.minRemainingLicenses >= 1

\* ------------------------------------------------ properties: skipped check
\* C30: with skipCheck no request of any kind is ever issued to the host
\* (no authentication refresh, no billing request, no commits request), no
\* snapshot and no token of the configuration is held, nothing is thrown,
\* and the call has returned or can return at once.
C30_SkipCheckNoHostCall ==
  skipCheck =>
    /\ calls = <<>>
    /\ billingReplies = <<>>
    /\ fetchReplies = <<>>
    /\ ghasData = NoSnapshot
    /\ tokensByHostname = EmptyObject
    /\ thrown = <<>>
    /\ pc = "returned" \/ (pc = "start" /\ ENABLED SkipCheck)

\* C30 witness: a skipped check over a non-empty repository list has
\* returned its approved result, and the host was never called.
C30_Witness ==
  /\ pc = "returned"
  /\ skipCheck
  /\ repositories # <<>>
  /\ result.hasEnoughLicenses
  /\ calls = <<>>
  /\ ghasData = NoSnapshot

====
